---------------------------- MODULE Spec2Model ----------------------------
(***************************************************************************)
(* commit-lint: the commit message format handlers (Conventional, GitHub,  *)
(* Jira, Custom), their validate and prompt_for_message operations, and    *)
(* the format registry.                                                    *)
(*                                                                         *)
(* A string is a sequence of one-character strings; Python's None is the   *)
(* value None.  Every regular expression of the source is translated by    *)
(* what Python's backtracking matcher returns for it (the first match in   *)
(* priority order), piece by piece, in the order of the pattern text.  A   *)
(* position in a string is the 0-based offset of the next character, and   *)
(* -1 after a piece that did not match.                                    *)
(***************************************************************************)
EXTENDS Integers, Sequences, FiniteSets, TLC

(***************************************************************************)
(* Characters and Python's str operations.                                 *)
(***************************************************************************)
LowerLetters == <<"a","b","c","d","e","f","g","h","i","j","k","l","m",
                  "n","o","p","q","r","s","t","u","v","w","x","y","z">>
UpperLetters == <<"A","B","C","D","E","F","G","H","I","J","K","L","M",
                  "N","O","P","Q","R","S","T","U","V","W","X","Y","Z">>
Digits == {"0","1","2","3","4","5","6","7","8","9"}
NL == "\n"
\* \s of the re module (the characters of it the model's inputs use).
Whitespace == {" ", NL, "\t"}

Range(s) == {s[i] : i \in DOMAIN s}
IsLower(c) == c \in Range(LowerLetters)
IsUpper(c) == c \in Range(UpperLetters)
IsDigit(c) == c \in Digits
\* \w of the re module on ASCII text.
IsWord(c) == IsLower(c) \/ IsUpper(c) \/ IsDigit(c) \/ c = "_"
IsSpace(c) == c \in Whitespace
\* Membership of a character in a class of a pattern, named by its text.
InClass(c, class) ==
    CASE class = "\\w" -> IsWord(c)
      [] class = "[\\w-]" -> IsWord(c) \/ c = "-"
      [] class = "\\d" -> IsDigit(c)
      [] class = "\\s" -> IsSpace(c)
      [] class = "\\S" -> ~IsSpace(c)
      [] class = "[^\\n]" -> c # NL
      [] class = "[^-]" -> c # "-"
      [] class = "[A-Z]" -> IsUpper(c)
      [] class = "[A-Z0-9_]" -> IsUpper(c) \/ IsDigit(c) \/ c = "_"

\* str.lower() on one character.
LowerChar(c) ==
    IF IsUpper(c)
    THEN LowerLetters[CHOOSE i \in DOMAIN UpperLetters : UpperLetters[i] = c]
    ELSE c
Lower(s) == [i \in DOMAIN s |-> LowerChar(s[i])]

\* The least member of a set of integers, or -1 for the empty set.
Least(S) == IF S = {} THEN -1 ELSE CHOOSE x \in S : \A y \in S : x <= y

\* s[n:] and s[:n]
Drop(s, n) == IF n >= Len(s) THEN <<>> ELSE SubSeq(s, n + 1, Len(s))
Take(s, n) == IF n <= 0 THEN <<>> ELSE SubSeq(s, 1, IF n > Len(s) THEN Len(s) ELSE n)

\* s.startswith(p, k)
StartsWithAt(s, k, p) ==
    /\ k >= 0
    /\ k + Len(p) <= Len(s)
    /\ \A i \in DOMAIN p : s[k + i] = p[i]
EndsWith(s, p) == Len(p) <= Len(s) /\ StartsWithAt(s, Len(s) - Len(p), p)

\* The number of characters of s from offset k on that are in the class, up
\* to the first that is not.
RunLen(s, k, class) ==
    IF k < 0 \/ k >= Len(s) THEN 0
    ELSE Least({j \in k..Len(s) : j = Len(s) \/ ~InClass(s[j + 1], class)}) - k

\* Pieces of a pattern, matched at offset k: the literal p; the optional
\* literal p?; the greedy class* and class+; one character of a class.  A greedy
\* class takes the whole run: in the patterns of the source the piece after
\* it never starts with a character of the class.
Lit(s, k, p) == IF StartsWithAt(s, k, p) THEN k + Len(p) ELSE -1
OptLit(s, k, p) == IF StartsWithAt(s, k, p) THEN k + Len(p) ELSE k
Many(s, k, class) == IF k < 0 THEN -1 ELSE k + RunLen(s, k, class)
Many1(s, k, class) ==
    IF k < 0 \/ RunLen(s, k, class) = 0 THEN -1 ELSE k + RunLen(s, k, class)
One(s, k, class) ==
    IF k >= 0 /\ k < Len(s) /\ InClass(s[k + 1], class) THEN k + 1 ELSE -1

\* str.strip(): leading and trailing whitespace removed.
Strip(s) ==
    SubSeq(s, RunLen(s, 0, "\\s") + 1,
              Len(s) - Least({n \in 0..Len(s) : n = Len(s) \/ ~IsSpace(s[Len(s) - n])}))

\* sep.join(parts)
RECURSIVE Join(_, _)
Join(parts, sep) ==
    IF parts = <<>> THEN <<>>
    ELSE IF Len(parts) = 1 THEN parts[1]
    ELSE parts[1] \o sep \o Join(Tail(parts), sep)

\* Python's None, distinct from every string.
None == <<"<None>">>
\* Python truthiness of an Optional[str]: None and "" are false.
Truthy(s) == s # None /\ s # <<>>

BlankLine == <<NL, NL>>
\* $ without re.MULTILINE: at the end, or just before a final newline.
AtDollar(s, k) == k = Len(s) \/ (k = Len(s) - 1 /\ s[Len(s)] = NL)

NoMatch == [matched |-> FALSE]

\* The outcome of an operation: a returned value, or a raised exception.
Returned(v) == [raised |-> "none", value |-> v]
Raised(e) == [raised |-> e]

(***************************************************************************)
(* Configuration: a mapping from option names to values.  A key that is    *)
(* not in the mapping is absent, and config.get(key, default) gives the    *)
(* default.                                                                *)
(***************************************************************************)
Get(config, key, default) == IF key \in DOMAIN config THEN config[key] ELSE default
\* The mappings that hold key with one of vals, or do not hold it.
Option(key, vals) == {<<>>} \cup {key :> v : v \in vals}
\* x in list
In(x, list) == \E i \in DOMAIN list : list[i] = x

(***************************************************************************)
(* Conventional Commits handler: conventional.py                           *)
(***************************************************************************)
\* A faulty ConventionalBodyFooter whose body is greedy and takes the rest.
ConventionalBodyFooterGreedy(msg, k, e) ==
    [matched |-> TRUE, body |-> Drop(msg, k + 2), footer |-> None]

\* The tail of commit_pattern after the description, from offset k:
\*   (?:\n\n(?P<body>[\s\S]*?))?(?:\n\n(?P<footer>[\s\S]*))?$
\* The lazy body grows from the empty string until what follows it matches:
\* the footer group (a blank line, then everything) is tried before the bare $.
\* e is the offset where the body ends.
ConventionalBodyFooter(msg, k, e) ==
    [matched |-> TRUE,
     body |-> SubSeq(msg, k + 3, e),
     footer |-> IF StartsWithAt(msg, e, BlankLine) THEN Drop(msg, e + 2) ELSE None]
ConventionalTail(msg, k) ==
    IF StartsWithAt(msg, k, BlankLine)
    THEN ConventionalBodyFooter(msg, k,
            Least({j \in (k + 2)..Len(msg) :
                      StartsWithAt(msg, j, BlankLine) \/ AtDollar(msg, j)}))
    ELSE IF AtDollar(msg, k)
    THEN [matched |-> TRUE, body |-> None, footer |-> None]
    ELSE NoMatch

\* (?:\((?P<scope>[\w-]+)\))? at offset a: the offset after it.
OptScope(msg, a) ==
    IF Lit(msg, Many1(msg, Lit(msg, a, <<"(">>), "[\\w-]"), <<")">>) >= 0
    THEN Lit(msg, Many1(msg, Lit(msg, a, <<"(">>), "[\\w-]"), <<")">>)
    ELSE a

\* The groups of a match: the type ends at a, the scope group at b, the
\* breaking mark at c, the description at e, and tail is the match of the rest.
ConventionalGroups(msg, a, b, c, e, tail) ==
    IF e < 0 \/ ~tail.matched THEN NoMatch
    ELSE [matched |-> TRUE,
          type |-> Take(msg, a),
          scope |-> IF b > a THEN SubSeq(msg, a + 2, b - 1) ELSE None,
          breaking |-> IF c > b THEN <<"!">> ELSE None,
          description |-> SubSeq(msg, c + 3, e),
          body |-> tail.body,
          footer |-> tail.footer]
ConventionalDescription(msg, a, b, c, e) ==
    ConventionalGroups(msg, a, b, c, e, IF e < 0 THEN NoMatch ELSE ConventionalTail(msg, e))
ConventionalBreaking(msg, a, b, c) ==
    ConventionalDescription(msg, a, b, c, Many1(msg, Lit(msg, c, <<":"," ">>), "[^\\n]"))
ConventionalScope(msg, a, b) ==
    ConventionalBreaking(msg, a, b, OptLit(msg, b, <<"!">>))
ConventionalType(msg, a) ==
    IF a < 0 THEN NoMatch ELSE ConventionalScope(msg, a, OptScope(msg, a))

\* self.commit_pattern.match(commit_message):
\*   ^(?P<type>\w+)(?:\((?P<scope>[\w-]+)\))?(?P<breaking>!)?: (?P<description>[^\n]+) tail
ConventionalMatch(msg) == ConventionalType(msg, Many1(msg, 0, "\\w"))

\* The default of max_subject_length in ConventionalCommitFormat.validate.
ConventionalDefaultMaxSubject == 100

\* subject_line of validate, and the header of _assemble_commit_message:
\*   type[(scope)][!]: description
ConventionalHeader(type, scope, breaking, description) ==
    type \o (IF Truthy(scope) THEN <<"(">> \o scope \o <<")">> ELSE <<>>)
         \o (IF breaking THEN <<"!">> ELSE <<>>)
         \o <<":"," ">> \o description

\* A faulty CheckType that compares the type with the first listed type only.
CheckTypeFirstListed(valid_types, type) ==
    IF valid_types # <<>> /\ type # valid_types[1]
    THEN << <<"Invalid type", type, valid_types>> >> ELSE <<>>

\* The rule checks of validate, each giving the errors it appends.
CheckType(valid_types, type) ==
    IF valid_types # <<>> /\ ~In(type, valid_types)
    THEN << <<"Invalid type", type, valid_types>> >> ELSE <<>>
CheckScopeRequired(config, scope) ==
    IF Get(config, "scope_required", FALSE) /\ ~Truthy(scope)
    THEN << <<"Scope is required">> >> ELSE <<>>
CheckScopeAllowed(allowed_scopes, scope) ==
    IF allowed_scopes # <<>> /\ Truthy(scope) /\ ~In(scope, allowed_scopes)
    THEN << <<"Invalid scope", scope, allowed_scopes>> >> ELSE <<>>
CheckBreaking(config, type, breaking) ==
    IF breaking /\ ~In(type, Get(config, "allowed_breaking_changes", <<>>))
    THEN << <<"Breaking changes not allowed for type", type>> >> ELSE <<>>
\* A faulty CheckSubjectLength that rejects a subject line of exactly the maximum.
CheckSubjectLengthInclusive(max_subject_length, subject_line) ==
    IF Len(subject_line) >= max_subject_length
    THEN << <<"Subject line too long", Len(subject_line), max_subject_length>> >>
    ELSE <<>>
CheckSubjectLength(max_subject_length, subject_line) ==
    IF Len(subject_line) > max_subject_length
    THEN << <<"Subject line too long", Len(subject_line), max_subject_length>> >>
    ELSE <<>>
CheckSubjectCase(subject_case, description) ==
    IF subject_case = "lower" /\ ~IsLower(description[1])
    THEN << <<"Subject description must start with lowercase">> >>
    ELSE IF subject_case = "upper" /\ ~IsUpper(description[1])
    THEN << <<"Subject description must start with uppercase">> >>
    ELSE <<>>
CheckNoPeriod(config, description) ==
    IF Get(config, "no_period_end", TRUE) /\ EndsWith(Strip(description), <<".">>)
    THEN << <<"Subject description should not end with period">> >> ELSE <<>>
CheckBodyRequired(config, body) ==
    IF Get(config, "body_required", FALSE) /\ ~Truthy(body)
    THEN << <<"Body is required">> >> ELSE <<>>
CheckFooterRequired(config, footer) ==
    IF Get(config, "footer_required", FALSE) /\ ~Truthy(footer)
    THEN << <<"Footer is required">> >> ELSE <<>>

\* A faulty ConventionalErrors that stops at the first check that fails.
FirstOnly(errors) == IF errors = <<>> THEN <<>> ELSE <<errors[1]>>
ConventionalErrorsFirstOnly(config, m) ==
    FirstOnly(
        CheckType(Get(config, "types", <<>>), m.type)
          \o CheckScopeRequired(config, m.scope)
          \o CheckScopeAllowed(Get(config, "allowed_scopes", <<>>), m.scope)
          \o CheckBreaking(config, m.type, m.breaking # None)
          \o CheckSubjectLength(Get(config, "max_subject_length", ConventionalDefaultMaxSubject),
                ConventionalHeader(m.type, m.scope, m.breaking # None, m.description))
          \o CheckSubjectCase(Get(config, "subject_case", "lower"), m.description)
          \o CheckNoPeriod(config, m.description)
          \o CheckBodyRequired(config, m.body)
          \o CheckFooterRequired(config, m.footer))

\* The rule checks of validate on the groups m of a match, in source order.
ConventionalErrors(config, m) ==
    CheckType(Get(config, "types", <<>>), m.type)
      \o CheckScopeRequired(config, m.scope)
      \o CheckScopeAllowed(Get(config, "allowed_scopes", <<>>), m.scope)
      \o CheckBreaking(config, m.type, m.breaking # None)
      \o CheckSubjectLength(Get(config, "max_subject_length", ConventionalDefaultMaxSubject),
            ConventionalHeader(m.type, m.scope, m.breaking # None, m.description))
      \o CheckSubjectCase(Get(config, "subject_case", "lower"), m.description)
      \o CheckNoPeriod(config, m.description)
      \o CheckBodyRequired(config, m.body)
      \o CheckFooterRequired(config, m.footer)

\* A faulty ConventionalResult that reports every matched message as valid.
ConventionalResultMatchedValid(m, errors) ==
    IF ~m.matched
    THEN [kind |-> "conventional", valid |-> FALSE,
          errors |-> << <<"Commit message does not follow Conventional Commits format">> >>,
          type |-> None, scope |-> None, breaking |-> FALSE,
          description |-> None, body |-> None, footer |-> None]
    ELSE [kind |-> "conventional", valid |-> TRUE, errors |-> errors,
          type |-> m.type, scope |-> m.scope, breaking |-> m.breaking # None,
          description |-> m.description, body |-> m.body, footer |-> m.footer]

\* The result validate builds from the match m and the errors of the checks.
ConventionalResult(m, errors) ==
    IF ~m.matched
    THEN [kind |-> "conventional", valid |-> FALSE,
          errors |-> << <<"Commit message does not follow Conventional Commits format">> >>,
          type |-> None, scope |-> None, breaking |-> FALSE,
          description |-> None, body |-> None, footer |-> None]
    ELSE [kind |-> "conventional", valid |-> Len(errors) = 0, errors |-> errors,
          type |-> m.type, scope |-> m.scope, breaking |-> m.breaking # None,
          description |-> m.description, body |-> m.body, footer |-> m.footer]
ConventionalChecked(config, m) ==
    ConventionalResult(m, IF m.matched THEN ConventionalErrors(config, m) ELSE <<>>)

\* ConventionalCommitFormat.validate
ConventionalValidate(config, msg) == ConventionalChecked(config, ConventionalMatch(msg))

\* The footer _prompt_for_footer starts from.
BreakingFooter(breaking, breaking_description) ==
    IF breaking THEN <<"B","R","E","A","K","I","N","G"," ","C","H","A","N","G","E",":"," ">> \o breaking_description ELSE <<>>

\* A faulty ConventionalFooter that puts the additional content on the line
\* after the breaking-change text.
ConventionalFooterNextLine(config, breaking, footer, ask_footer, additional) ==
    IF Get(config, "footer_required", FALSE) \/ (~breaking /\ ask_footer)
    THEN IF additional # <<>>
         THEN IF footer # <<>> THEN footer \o <<NL>> \o additional
              ELSE additional
         ELSE footer
    ELSE footer

\* _prompt_for_footer with _get_additional_footer_content.  ask_footer is the
\* answer to "Add footer?" (asked only without a breaking change and without
\* footer_required); additional is the text then entered.
ConventionalFooter(config, breaking, footer, ask_footer, additional) ==
    IF Get(config, "footer_required", FALSE) \/ (~breaking /\ ask_footer)
    THEN IF additional # <<>>
         THEN IF footer # <<>> THEN footer \o BlankLine \o additional
              ELSE additional
         ELSE footer
    ELSE footer

\* A faulty ConventionalQuestions that asks for the description before the
\* breaking change.
ConventionalQuestionsDescriptionFirst(config, type, breaking, add_body, ask_footer) ==
    <<"Commit type:", "Scope", "Description:">>
        \o (IF In(type, Get(config, "allowed_breaking_changes", <<>>))
            THEN <<"Is this a breaking change?">>
                    \o (IF breaking THEN <<"Describe the breaking change">> ELSE <<>>)
            ELSE <<>>)
        \o (IF Get(config, "body_required", FALSE) THEN <<"Enter body">>
            ELSE IF add_body THEN <<"Add body?", "Enter body">>
            ELSE <<"Add body?">>)
        \o (IF Get(config, "footer_required", FALSE) THEN <<"Enter footer">>
            ELSE IF breaking THEN <<>>
            ELSE IF ask_footer THEN <<"Add footer?", "Enter footer">>
            ELSE <<"Add footer?">>)

\* prompt_for_message: the questions in the order the helpers ask them.
\* breaking is the answer to "Is this a breaking change?", add_body the one
\* to "Add body?", ask_footer the one to "Add footer?".
ConventionalQuestions(config, type, breaking, add_body, ask_footer) ==
    <<"Commit type:", "Scope">>
        \o (IF In(type, Get(config, "allowed_breaking_changes", <<>>))
            THEN <<"Is this a breaking change?">>
                    \o (IF breaking THEN <<"Describe the breaking change">> ELSE <<>>)
            ELSE <<>>)
        \o <<"Description:">>
        \o (IF Get(config, "body_required", FALSE) THEN <<"Enter body">>
            ELSE IF add_body THEN <<"Add body?", "Enter body">>
            ELSE <<"Add body?">>)
        \o (IF Get(config, "footer_required", FALSE) THEN <<"Enter footer">>
            ELSE IF breaking THEN <<>>
            ELSE IF ask_footer THEN <<"Add footer?", "Enter footer">>
            ELSE <<"Add footer?">>)

\* _assemble_commit_message
ConventionalAssemble(type, scope, breaking, description, body, footer) ==
    ConventionalHeader(type, scope, breaking, description)
        \o (IF body # <<>> THEN BlankLine \o body ELSE <<>>)
        \o (IF footer # <<>> THEN BlankLine \o footer ELSE <<>>)

(***************************************************************************)
(* GitHub handler: github.py                                               *)
(***************************************************************************)
\* The groups of commit_pattern when the lazy subject ends at offset e.
GitHubGroups(msg, e) ==
    IF e < 0 THEN NoMatch
    ELSE [matched |-> TRUE,
          subject |-> Take(msg, e),
          body |-> IF StartsWithAt(msg, e, BlankLine) THEN Drop(msg, e + 2) ELSE None]

\* self.commit_pattern.match(commit_message):
\*   ^(?P<subject>.+?)(?:\n\n(?P<body>[\s\S]*))?$   (re.DOTALL)
\* The lazy subject grows from one character until a blank line or $ follows.
GitHubSplit(msg) ==
    GitHubGroups(msg, Least({j \in 1..Len(msg) :
                                StartsWithAt(msg, j, BlankLine) \/ AtDollar(msg, j)}))

\* "|".join(self.issue_keywords): no keyword at all leaves one empty alternative.
KeywordAlternatives(keywords) == IF keywords = <<>> THEN << <<>> >> ELSE keywords

\* The groups of issue_pattern for a keyword of length n at offset q, with
\* the digits of the issue from offset p on.
IssueGroups(msg, q, n, p) ==
    IF Many1(msg, p, "\\d") < 0 THEN NoMatch
    ELSE [matched |-> TRUE,
          keyword |-> SubSeq(msg, q + 1, q + n),
          issue |-> SubSeq(msg, p + 1, Many1(msg, p, "\\d"))]

\* One alternative kw of the keyword group at offset q, re.IGNORECASE,
\* followed by  :?\s+#(?P<issue>\d+) .
IssueAt(msg, q, kw) ==
    IF q + Len(kw) <= Len(msg) /\ Lower(SubSeq(msg, q + 1, q + Len(kw))) = Lower(kw)
    THEN IssueGroups(msg, q, Len(kw),
            Lit(msg, Many1(msg, OptLit(msg, q + Len(kw), <<":">>), "\\s"), <<"#">>))
    ELSE NoMatch

\* The match at the leftmost start q0, by the first alternative that matches.
IssueAtStart(msg, alts, q0) ==
    IF q0 < 0 THEN NoMatch
    ELSE IssueAt(msg, q0, alts[Least({i \in DOMAIN alts : IssueAt(msg, q0, alts[i]).matched})])

IssueSearchAlternatives(msg, alts) ==
    IssueAtStart(msg, alts,
        Least({q \in 0..Len(msg) :
                 /\ q = 0 \/ IsSpace(msg[q])
                 /\ \E i \in DOMAIN alts : IssueAt(msg, q, alts[i]).matched}))

\* self.issue_pattern.search(commit_message):
\*   (?:^|\s)(?P<keyword>K1|K2|...):?\s+#(?P<issue>\d+)   (re.IGNORECASE)
\* The keyword starts at the start of the message or after a whitespace
\* character; the leftmost start wins and, there, the first alternative.
IssueSearch(msg, keywords) == IssueSearchAlternatives(msg, KeywordAlternatives(keywords))

\* The default keywords and max_subject_length of the GitHub handler.
GitHubDefaultKeywords == << <<"F","i","x","e","s">>, <<"C","l","o","s","e","s">>, <<"R","e","s","o","l","v","e","s">> >>
GitHubDefaultMaxSubject == 72

\* non_imperative_starters of validate
NonImperativeStarters ==
    << <<"a","d","d","e","d">>,
       <<"f","i","x","e","s">>,
       <<"f","i","x","e","d">>,
       <<"a","d","d","i","n","g">>,
       <<"u","p","d","a","t","e","d">>,
       <<"c","h","a","n","g","e","d">> >>

\* subject.split()[0] if subject.split() else "": the first run of
\* non-whitespace characters.
FirstWord(s) ==
    SubSeq(s, RunLen(s, 0, "\\s") + 1, Many(s, RunLen(s, 0, "\\s"), "\\S"))

\* The rule checks of validate, each giving the errors it appends.
GitHubCheckLength(max_subject_length, subject) ==
    IF Len(subject) > max_subject_length
    THEN << <<"Subject line too long", Len(subject), max_subject_length>> >>
    ELSE <<>>
GitHubCheckMood(config, subject) ==
    IF /\ Get(config, "imperative_mood", TRUE)
       /\ In(Lower(FirstWord(subject)), NonImperativeStarters)
    THEN << <<"Use imperative mood in subject line (e.g., 'Add' not 'Added')">> >>
    ELSE <<>>
\* self.issue_keywords[0] of the error text does not exist without keywords.
GitHubCheckIssue(config, keywords, issue) ==
    IF ~issue.matched /\ Get(config, "issue_reference_required", FALSE)
    THEN << <<"Missing issue reference", keywords[1], keywords>> >>
    ELSE <<>>

\* The result validate builds from the match m of commit_pattern and the
\* match issue of issue_pattern.
GitHubChecked(config, keywords, m, issue, errors) ==
    IF ~m.matched
    THEN Returned([kind |-> "github", valid |-> FALSE,
                   errors |-> << <<"Invalid commit message format">> >>,
                   message |-> None, issue_reference |-> None,
                   issue_keyword |-> None])
    ELSE IF /\ ~issue.matched
            /\ Get(config, "issue_reference_required", FALSE)
            /\ keywords = <<>>
    THEN Raised("IndexError")
    ELSE Returned([kind |-> "github", valid |-> Len(errors) = 0, errors |-> errors,
                   message |-> m.subject,
                   issue_reference |-> IF issue.matched THEN issue.issue ELSE None,
                   issue_keyword |-> IF issue.matched THEN issue.keyword ELSE None])

GitHubErrors(config, keywords, m, issue) ==
    GitHubCheckLength(Get(config, "max_subject_length", GitHubDefaultMaxSubject), m.subject)
      \o GitHubCheckMood(config, m.subject)
      \o GitHubCheckIssue(config, keywords, issue)

GitHubMatched(config, keywords, m, issue) ==
    GitHubChecked(config, keywords, m, issue,
                  IF m.matched THEN GitHubErrors(config, keywords, m, issue) ELSE <<>>)

\* GitHubCommitFormat.validate.
GitHubValidate(self, msg) ==
    GitHubMatched(self.config, self.issue_keywords, GitHubSplit(msg),
                  IssueSearch(msg, self.issue_keywords))

\* A faulty GitHubQuestions that asks "Add issue reference?" also when a
\* reference is required.
GitHubQuestionsAlwaysConfirm(config, add_body, add_reference) ==
    <<"Subject", "Add detailed description?">>
        \o (IF add_body THEN <<"description lines">> ELSE <<>>)
        \o <<"Add issue reference?">>
        \o (IF Get(config, "issue_reference_required", FALSE) \/ add_reference
            THEN <<"Reference keyword", "Issue number">> ELSE <<>>)

\* prompt_for_message: the questions in the order the helpers ask them;
\* add_body and add_reference are the answers to the two confirmations.
GitHubQuestions(config, add_body, add_reference) ==
    <<"Subject", "Add detailed description?">>
        \o (IF add_body THEN <<"description lines">> ELSE <<>>)
        \o (IF Get(config, "issue_reference_required", FALSE)
            THEN <<"Reference keyword", "Issue number">>
            ELSE IF add_reference
            THEN <<"Add issue reference?", "Reference keyword", "Issue number">>
            ELSE <<"Add issue reference?">>)

\* _prompt_for_issue_reference: f"{keyword} #{issue_number}"
GitHubReference(keyword, issue_number) == keyword \o <<" ","#">> \o issue_number

\* The subject of _assemble_message: the reference is appended in parentheses
\* when there is no body.
GitHubSubject(subject, body, issue_reference) ==
    IF issue_reference # <<>> /\ body = <<>>
    THEN subject \o <<" ","(">> \o issue_reference \o <<")">>
    ELSE subject

\* _assemble_message; issue_reference is "" when none was entered.
GitHubAssemble(subject, body, issue_reference) ==
    IF body # <<>>
    THEN GitHubSubject(subject, body, issue_reference) \o BlankLine \o body
           \o (IF /\ issue_reference # <<>>
                  /\ ~EndsWith(GitHubSubject(subject, body, issue_reference),
                               <<"(">> \o issue_reference \o <<")">>)
               THEN BlankLine \o issue_reference ELSE <<>>)
    ELSE GitHubSubject(subject, body, issue_reference)

(***************************************************************************)
(* Jira handler: jira.py                                                   *)
(***************************************************************************)
\* The groups of JIRA_ID_PATTERN: the issue id from offset a to d, and the
\* lazy message from offset h to e.
JiraIdGroups(line, a, d, h, e) ==
    IF e < 0 THEN NoMatch
    ELSE [matched |-> TRUE,
          issue_id |-> SubSeq(line, a + 1, d),
          message |-> SubSeq(line, h + 1, e)]
\* (.*?)\s*$ from offset h: without re.DOTALL the lazy message holds no
\* newline; it is the shortest text after which only whitespace is left.
JiraIdMessage(line, a, d, h) ==
    JiraIdGroups(line, a, d, h,
        IF h < 0 THEN -1
        ELSE Least({j \in h..Len(line) :
                      /\ \A i \in (h + 1)..j : line[i] # NL
                      /\ \A i \in (j + 1)..Len(line) : IsSpace(line[i])}))
\* \s*:\s+ from offset d, the end of the issue id
JiraIdColon(line, a, d) ==
    JiraIdMessage(line, a, d, Many1(line, Lit(line, Many(line, d, "\\s"), <<":">>), "\\s"))
\* ([A-Z][A-Z0-9_]+-\d+) from offset a
JiraIdKey(line, a) ==
    JiraIdColon(line, a,
        Many1(line, Lit(line, Many1(line, One(line, a, "[A-Z]"), "[A-Z0-9_]"), <<"-">>), "\\d"))

\* re.match(JIRA_ID_PATTERN, first_line):
\*   ^\s*([A-Z][A-Z0-9_]+-\d+)\s*:\s+(.*?)\s*$
JiraIdMatch(line) == JiraIdKey(line, Many(line, 0, "\\s"))

\* commit_message.split("\n\n", 1) at the first blank line, at offset c (-1
\* when there is none), then .strip() of each part.
JiraParts(msg, c) ==
    IF c < 0
    THEN [first |-> Strip(msg), body |-> None]
    ELSE [first |-> Strip(Take(msg, c)), body |-> Strip(Drop(msg, c + 2))]
JiraFirstBody(msg) ==
    JiraParts(msg, Least({j \in 0..Len(msg) : StartsWithAt(msg, j, BlankLine)}))

\* DEFAULT_MAX_LENGTH
DEFAULT_MAX_LENGTH == 72

\* issue_id.split("-")[0]
BeforeDash(s) == Take(s, RunLen(s, 0, "[^-]"))

\* A faulty JiraCheckId that accepts every project key.
JiraCheckIdAnyKey(project_keys, require_issue_id, m) ==
    IF ~m.matched /\ require_issue_id
    THEN << <<"Commit message must start with a Jira issue ID (e.g., PROJECT-123: message)">> >>
    ELSE <<>>

\* The issue-id branch of validate: the errors it appends.
JiraCheckId(project_keys, require_issue_id, m) ==
    IF m.matched
    THEN IF project_keys # <<>> /\ ~In(BeforeDash(m.issue_id), project_keys)
         THEN << <<"Commit message must start with a Jira issue ID from one of the allowed projects",
                   project_keys>> >>
         ELSE <<>>
    ELSE IF require_issue_id
    THEN << <<"Commit message must start with a Jira issue ID (e.g., PROJECT-123: message)">> >>
    ELSE <<>>

\* A faulty JiraMessageText that keeps the whole commit message whenever the
\* first line holds no issue id.
JiraMessageTextWhole(require_issue_id, msg, first_line, m) ==
    IF m.matched THEN Strip(m.message) ELSE msg

\* message_text of validate: commit_message at first, then set by the branch
\* of the issue-id check that is taken (the elif branch leaves it alone).
JiraMessageText(require_issue_id, msg, first_line, m) ==
    IF m.matched THEN Strip(m.message)
    ELSE IF require_issue_id THEN msg
    ELSE first_line

\* The length check of validate.
JiraCheckLength(max_length, message_text) ==
    IF Len(message_text) > max_length
    THEN << <<"Commit message is too long", Len(message_text), max_length>> >>
    ELSE <<>>

JiraResult(m, message_text, body, errors) ==
    [kind |-> "jira", valid |-> Len(errors) = 0, errors |-> errors,
     issue_id |-> IF m.matched THEN m.issue_id ELSE None,
     message |-> message_text,
     body |-> body]

JiraChecked(config, m, message_text, body) ==
    JiraResult(m, message_text, body,
        JiraCheckId(Get(config, "jira_project_keys", <<>>),
                    Get(config, "require_issue_id", TRUE), m)
          \o JiraCheckLength(Get(config, "max_message_length", DEFAULT_MAX_LENGTH),
                             message_text))

JiraMatched(config, msg, parts, m) ==
    JiraChecked(config, m,
        JiraMessageText(Get(config, "require_issue_id", TRUE), msg, parts.first, m),
        parts.body)

JiraSplit(config, msg, parts) == JiraMatched(config, msg, parts, JiraIdMatch(parts.first))

\* JiraCommitFormat.validate
JiraValidate(config, msg) == JiraSplit(config, msg, JiraFirstBody(msg))

\* _prompt_for_issue_id: f"{project_key}-{issue_number}"
JiraIssueId(project_key, issue_number) == project_key \o <<"-">> \o issue_number

\* _assemble_message; issue_id and body are "" when not entered.
JiraAssemble(issue_id, message, body) ==
    (IF issue_id # <<>> THEN issue_id \o <<":"," ">> \o message ELSE message)
        \o (IF body # <<>> THEN BlankLine \o body ELSE <<>>)

(***************************************************************************)
(* Custom handler: custom.py                                               *)
(***************************************************************************)
\* The custom patterns of the model's configurations: the pattern of the
\* module's documentation, one with an optional named group, one without
\* named groups (cli.py), and one that is no regular expression.
P_Bracket == "^\\[(?P<category>\\w+)\\] (?P<message>.+)$"
P_Scoped == "^(?P<type>\\w+)(?:\\((?P<scope>\\w+)\\))?: (?P<message>.+)$"
P_Plain == "^\\[\\w+\\] .+$"
P_Unclosed == "^(\\w+"
\* The message templates: the one cli.py writes for P_Bracket, and one for
\* P_Scoped that leaves the scope out.
T_Bracket == <<"[","{","c","a","t","e","g","o","r","y","}","]"," ","{","m","e","s","s","a","g","e","}">>
T_Typed == <<"{","t","y","p","e","}",":"," ","{","m","e","s","s","a","g","e","}">>

\* A faulty IsValidPattern under which every pattern compiles.
IsValidPatternAlways(pattern) == TRUE

\* re.compile(pattern, re.DOTALL) raises re.error
IsValidPattern(pattern) == pattern \in {P_Bracket, P_Scoped, P_Plain}

\* _get_named_groups: findall of (?P<name> in the pattern text, in order.
NamedGroups(pattern) ==
    CASE pattern = P_Bracket -> <<"category", "message">>
      [] pattern = P_Scoped -> <<"type", "scope", "message">>
      [] OTHER -> <<>>

\* The groups of P_Bracket: the category ends at offset c, the message starts
\* at offset k; with re.DOTALL .+ is everything that is left, at least one
\* character.
BracketGroups(msg, c, k) ==
    IF k < 0 \/ k >= Len(msg) THEN NoMatch
    ELSE [matched |-> TRUE,
          groups |-> [category |-> SubSeq(msg, 2, c), message |-> Drop(msg, k)]]
BracketCategory(msg, c) == BracketGroups(msg, c, Lit(msg, c, <<"]"," ">>))
\* ^\[(?P<category>\w+)\] (?P<message>.+)$ with re.DOTALL
BracketMatch(msg) == BracketCategory(msg, Many1(msg, Lit(msg, 0, <<"[">>), "\\w"))

\* (?:\((?P<scope>\w+)\))? at offset a: the offset after it.
OptWordScope(msg, a) ==
    IF Lit(msg, Many1(msg, Lit(msg, a, <<"(">>), "\\w"), <<")">>) >= 0
    THEN Lit(msg, Many1(msg, Lit(msg, a, <<"(">>), "\\w"), <<")">>)
    ELSE a
\* The groups of P_Scoped: the type ends at a, the scope group at b, the
\* message starts at k.
ScopedGroups(msg, a, b, k) ==
    IF k < 0 \/ k >= Len(msg) THEN NoMatch
    ELSE [matched |-> TRUE,
          groups |-> [type |-> Take(msg, a),
                      scope |-> IF b > a THEN SubSeq(msg, a + 2, b - 1) ELSE None,
                      message |-> Drop(msg, k)]]
ScopedScope(msg, a, b) == ScopedGroups(msg, a, b, Lit(msg, b, <<":"," ">>))
ScopedType(msg, a) == IF a < 0 THEN NoMatch ELSE ScopedScope(msg, a, OptWordScope(msg, a))
\* ^(?P<type>\w+)(?:\((?P<scope>\w+)\))?: (?P<message>.+)$ with re.DOTALL
ScopedMatch(msg) == ScopedType(msg, Many1(msg, 0, "\\w"))

\* self.pattern.match(commit_message) and match.groupdict(): a named group
\* that did not take part in the match maps to None.
CustomMatch(pattern, msg) ==
    CASE pattern = P_Bracket -> BracketMatch(msg)
      [] pattern = P_Scoped -> ScopedMatch(msg)
      [] pattern = P_Plain ->
            IF BracketMatch(msg).matched
            THEN [matched |-> TRUE, groups |-> <<>>] ELSE NoMatch

\* CustomCommitResult declares matches: Dict[str, str]; the model validation
\* of the result class raises ValidationError for a value that is no string.
IsStrDict(d) == \A g \in DOMAIN d : d[g] # None

\* A faulty CustomChecked that leaves message at its default when the
\* pattern does not match.
CustomCheckedNoEcho(msg, m) ==
    IF ~m.matched
    THEN Returned([kind |-> "custom", valid |-> FALSE,
                   errors |-> << <<"Commit message does not match the custom pattern">> >>,
                   message |-> <<>>, matches |-> <<>>])
    ELSE IF ~IsStrDict(m.groups)
    THEN Raised("ValidationError")
    ELSE Returned([kind |-> "custom", valid |-> TRUE, errors |-> <<>>,
                   message |-> msg, matches |-> m.groups])

\* The result validate builds from the match m.
CustomChecked(msg, m) ==
    IF ~m.matched
    THEN Returned([kind |-> "custom", valid |-> FALSE,
                   errors |-> << <<"Commit message does not match the custom pattern">> >>,
                   message |-> msg, matches |-> <<>>])
    ELSE IF ~IsStrDict(m.groups)
    THEN Raised("ValidationError")
    ELSE Returned([kind |-> "custom", valid |-> TRUE, errors |-> <<>>,
                   message |-> msg, matches |-> m.groups])

\* CustomCommitFormat.validate
CustomValidate(self, msg) == CustomChecked(msg, CustomMatch(self.pattern, msg))

\* The text of a group name, as it stands in a template.
GroupText(group) ==
    CASE group = "category" -> <<"c","a","t","e","g","o","r","y">>
      [] group = "message" -> <<"m","e","s","s","a","g","e">>
      [] group = "type" -> <<"t","y","p","e">>
      [] group = "scope" -> <<"s","c","o","p","e">>

\* message.replace(old, new): every occurrence of old, from the left.
RECURSIVE Replace(_, _, _)
Replace(s, old, new) ==
    IF Len(s) < Len(old) THEN s
    ELSE IF Take(s, Len(old)) = old
    THEN new \o Replace(Drop(s, Len(old)), old, new)
    ELSE <<s[1]>> \o Replace(Tail(s), old, new)

\* The template after the placeholders of groups[i..] are replaced, one group
\* after the other, by the collected values.
RECURSIVE FillTemplate(_, _, _, _)
FillTemplate(message, groups, values, i) ==
    IF i > Len(groups) THEN message
    ELSE FillTemplate(
             Replace(message, <<"{">> \o GroupText(groups[i]) \o <<"}">>,
                     values[groups[i]]),
             groups, values, i + 1)

\* Without a template: the values of groups[i..] appended to message, with a
\* space before a value when the message so far is not empty.
RECURSIVE JoinValues(_, _, _, _)
JoinValues(message, groups, values, i) ==
    IF i > Len(groups) THEN message
    ELSE JoinValues((IF message # <<>> THEN message \o <<" ">> ELSE message)
                        \o values[groups[i]],
                    groups, values, i + 1)

\* The prompt texts in the order asked: self.prompts.get(group,
\* f"Enter {group}") for each named group.
CustomQuestions(self) ==
    [i \in DOMAIN self.named_groups |->
        IF self.named_groups[i] \in DOMAIN self.prompts
        THEN self.prompts[self.named_groups[i]]
        ELSE <<"E","n","t","e","r"," ">> \o GroupText(self.named_groups[i])]

\* The message prompt_for_message builds from the collected values.
CustomAssemble(cfg, groups, values) ==
    IF Get(cfg, "message_template", <<>>) # <<>>
    THEN FillTemplate(Get(cfg, "message_template", <<>>), groups, values, 1)
    ELSE JoinValues(<<>>, groups, values, 1)

(***************************************************************************)
(* Format registry: formats/__init__.py                                    *)
(***************************************************************************)
\* The classes the registry is built from, in the order of the source.
FormatClasses ==
    <<"ConventionalCommitFormat", "GitHubCommitFormat", "JiraCommitFormat",
      "CustomCommitFormat">>

\* format_class.get_format_name()
get_format_name(format_class) ==
    CASE format_class = "ConventionalCommitFormat" -> "conventional"
      [] format_class = "GitHubCommitFormat" -> "github"
      [] format_class = "JiraCommitFormat" -> "jira"
      [] format_class = "CustomCommitFormat" -> "custom"

\* FORMAT_REGISTRY: get_format_name() of each class, mapped to the class.
FORMAT_REGISTRY ==
    [name \in {get_format_name(FormatClasses[i]) : i \in DOMAIN FormatClasses} |->
        FormatClasses[CHOOSE i \in DOMAIN FormatClasses :
                         get_format_name(FormatClasses[i]) = name]]

\* FORMAT_REGISTRY.keys(), in insertion order
RegistryKeys == [i \in DOMAIN FormatClasses |-> get_format_name(FormatClasses[i])]

\* A faulty UnknownFormat whose message names the valid formats only.
UnknownFormatNoName(format_type) ==
    [raised |-> "ValueError",
     text |-> <<"Unknown commit format type. Valid types: ">> \o RegistryKeys]

\* The ValueError of get_commit_format: the pieces of its message, the
\* valid formats in the order they are joined.
UnknownFormat(format_type) ==
    [raised |-> "ValueError",
     text |-> <<"Unknown commit format type: ", format_type, ". Valid types: ">>
                 \o RegistryKeys]

(***************************************************************************)
(* Inputs of the model: configurations, messages and prompt answers.       *)
(***************************************************************************)
\* A small configured maximum, so that short messages sit on both sides of it.
ShortMax == 11

\* n times the letter a
Repeat(n) == [i \in 1..n |-> "a"]

\* Every combination of the rule options with one type configured, and the
\* other type lists with the rule options at their defaults.
ConventionalConfigs ==
    { ("format_type" :> "conventional") @@ ("types" :> <<<<"f","e","a","t">>>>)
          @@ sr @@ sc @@ br @@ mx @@ ca @@ pe @@ bo @@ fo :
        sr \in Option("scope_required", {TRUE}),
        sc \in Option("allowed_scopes", {<<<<"a","p","i">>>>}),
        br \in Option("allowed_breaking_changes", {<<<<"f","e","a","t">>>>}),
        mx \in Option("max_subject_length", {ShortMax}),
        ca \in Option("subject_case", {"upper"}),
        pe \in Option("no_period_end", {FALSE}),
        bo \in Option("body_required", {TRUE}),
        fo \in Option("footer_required", {TRUE}) }
    \cup
    { ("format_type" :> "conventional") @@ t @@ mx :
        t \in Option("types", {<<<<"f","e","a","t">>, <<"f","i","x">>>>}),
        mx \in Option("max_subject_length", {ShortMax}) }

GitHubConfigs ==
    { ("format_type" :> "github") @@ kw @@ mx @@ im @@ ir :
        kw \in Option("keywords", {<<<<"F","i","x","e","s">>, <<"C","l","o","s","e","s">>>>, <<>>}),
        mx \in Option("max_subject_length", {ShortMax}),
        im \in Option("imperative_mood", {FALSE}),
        ir \in Option("issue_reference_required", {TRUE}) }

JiraConfigs ==
    { ("format_type" :> "jira") @@ pk @@ ri @@ mx :
        pk \in Option("jira_project_keys", {<<<<"P","R","O","J">>, <<"D","E","V">>>>, <<<<"o","p","s">>>>}),
        ri \in Option("require_issue_id", {FALSE}),
        mx \in Option("max_message_length", {ShortMax}) }

CustomConfigs ==
    { ("format_type" :> "custom") @@ cp @@ mt @@ pr :
        cp \in Option("custom_pattern", {"", P_Bracket, P_Scoped, P_Plain, P_Unclosed}),
        mt \in Option("message_template", {T_Bracket, T_Typed}),
        pr \in Option("prompts", {"message" :> <<"C","o","m","m","i","t"," ","m","e","s","s","a","g","e">>}) }

\* The configurations of the model: those of each handler, two without
\* format_type, and those whose format_type the registry does not hold.
Configs == ConventionalConfigs \cup GitHubConfigs \cup JiraConfigs \cup CustomConfigs
              \cup { <<>>, "types" :> <<<<"f","e","a","t">>>>, "format_type" :> "gitlab",
                     "format_type" :> "Conventional", "format_type" :> "" }

\* The messages given to validate, by handler.
Messages ==
    [ conventional |->
         { <<>>,
           <<"f","e","a","t">>,
           <<"f","e","a","t",":","a","d","d"," ","x">>,
           <<"f","e","a","t"," ","a","d","d"," ","x">>,
           <<":"," ","a","d","d"," ","x">>,
           <<"f","e","a","t",":"," ">>,
           <<"f","e","a","t",":"," ","a","d","d"," ","x">>,
           <<"f","i","x",":"," ","a","d","d"," ","x">>,
           <<"w","i","p",":"," ","a","d","d"," ","x">>,
           <<"F","e","a","t",":"," ","a","d","d"," ","x">>,
           <<"f","e","a","t","(","a","p","i",")",":"," ","a","d","d"," ","x">>,
           <<"f","e","a","t","(","d","b",")",":"," ","a","d","d"," ","x">>,
           <<"f","e","a","t","(",")",":"," ","a","d","d"," ","x">>,
           <<"f","e","a","t","(","a"," ","b",")",":"," ","a","d","d"," ","x">>,
           <<"f","e","a","t","!",":"," ","a","d","d"," ","x">>,
           <<"f","i","x","!",":"," ","a","d","d"," ","x">>,
           <<"w","i","p","(","d","b",")","!",":"," ","A","d","d"," ","x",".">>,
           <<"f","e","a","t",":"," ","A","d","d"," ","x">>,
           <<"f","e","a","t",":"," ","a","d","d"," ","x",".">>,
           <<"f","e","a","t",":"," ","a","d","d"," ","x","."," ">>,
           <<"f","e","a","t",":"," "," ","a","d","d"," ","x">>,
           <<"f","e","a","t",":"," ","1"," ","x">>,
           <<"f","e","a","t",":"," ","a","d","d"," ","x","\n">>,
           <<"f","e","a","t",":"," ","a","d","d"," ","x","\n","m","o","r","e">>,
           <<"f","e","a","t",":"," ","a","d","d"," ","x","\n","\n","w","h","y">>,
           <<"f","e","a","t",":"," ","a","d","d"," ","x","\n","\n","w","h","y","\n">>,
           <<"f","e","a","t",":"," ","a","d","d"," ","x","\n","\n","w","h","y","\n","\n","R","e","f","s"," ","1">>,
           <<"f","e","a","t",":"," ","a","d","d"," ","x","\n","\n","w","h","y","\n","\n","R","e","f","s"," ","1","\n","\n","m","o","r","e">>,
           <<"f","e","a","t",":"," ","a","d","d"," ","x","\n","\n","w","h","y","\n","s","o","\n","\n","R","e","f","s"," ","1","\n">>,
           <<"f","e","a","t",":"," ","a","d","d"," ","x","\n","\n","\n","\n","R","e","f","s"," ","1">>,
           <<"f","e","a","t",":"," ","a","d","d"," ","x","\n","\n">>,
           <<"f","e","a","t","!",":"," ","a","d","d"," ","x","\n","\n","B","R","E","A","K","I","N","G"," ","C","H","A","N","G","E",":"," ","x">> }
         \cup { <<"f","e","a","t",":"," ">> \o Repeat(ConventionalDefaultMaxSubject - 6 + d) :
                  d \in {0, 1} },
      github |->
         { <<>>,
           <<"\n">>,
           <<" ">>,
           <<"A","d","d"," ","f","e","a","t","u","r","e">>,
           <<"A","d","d"," ","f","e","a","t","u","r","e","s">>,
           <<"A","d","d","e","d"," ","t","h","i","n","g">>,
           <<"f","i","x","e","s"," ","b","u","g">>,
           <<" "," ","a","d","d","e","d"," ","x">>,
           <<"F","i","x","e","s"," ","#","1","2">>,
           <<"A","d","d"," ","x"," ","(","F","i","x","e","s"," ","#","1","2",")">>,
           <<"A","d","d"," ","x"," ","F","i","x","e","s"," ","#","1","2">>,
           <<"A","d","d"," ","x"," ","F","i","x","e","s"," ","#","1","2","\n","\n","C","l","o","s","e","s"," ","#","3">>,
           <<"A","d","d"," ","x","\n","\n","F","i","x","e","s"," ","#","1","2">>,
           <<"A","d","d"," ","x","\n","\n","w","h","y","\n","\n","F","i","x","e","s",":"," ","#","1","2">>,
           <<"A","d","d"," ","x","\n","\n","f","i","x","e","s"," "," ","#","1","2">>,
           <<"A","d","d"," ","x","\n","\n","R","e","s","o","l","v","e","s"," ","#","7">>,
           <<"A","d","d"," ","x"," ","#","1","2">>,
           <<"A","d","d"," ","x","\n","\n","F","i","x","e","s"," ","#","x">>,
           <<"A","d","d"," ","x","\n","\n","F","i","x","e","s","#","1","2">>,
           <<"A","d","d"," ","x","\n">>,
           <<"A","d","d"," ","x","\n","m","o","r","e">>,
           <<"A","d","d"," ","x","\n","\n","(","C","l","o","s","e","s"," ","#","3",")">>,
           <<"A","d","d"," ","x","\n","\n","P","r","e","f","i","x","e","s"," ","#","1","2">>,
           <<"A","d","d"," ","x","\n","\n"," ","#","1","2">> }
         \cup { Repeat(GitHubDefaultMaxSubject + d) : d \in {0, 1} },
      jira |->
         { <<>>,
           <<"P","R","O","J","-","1",":"," ","f","i","x"," ","b","u","g">>,
           <<"D","E","V","-","1","2",":"," ","f","i","x">>,
           <<"O","T","H","E","R","-","1",":"," ","f","i","x">>,
           <<"o","p","s","-","1",":"," ","f","i","x">>,
           <<"O","P","S","-","1",":"," ","f","i","x">>,
           <<"P","-","1",":"," ","f","i","x">>,
           <<"P","R","O","J","-","1",":","f","i","x">>,
           <<"P","R","O","J","-","1"," ",":"," ","f","i","x">>,
           <<"P","R","O","J","1",":"," ","f","i","x">>,
           <<"P","R","O","J","-",":"," ","f","i","x">>,
           <<"P","R","O","J","-","1",":"," ">>,
           <<"P","R","O","J","-","1",":"," ","f","i","x","\n","m","o","r","e">>,
           <<"f","i","x"," ","b","u","g">>,
           <<"a","d","d"," ","f","e","a","t","u","r","e">>,
           <<"a","d","d"," ","f","e","a","t","u","r","e","s">>,
           <<"P","R","O","J","-","1",":"," ","a","d","d"," ","f","e","a","t","u","r","e">>,
           <<"P","R","O","J","-","1",":"," ","a","d","d"," ","f","e","a","t","u","r","e","s">>,
           <<"P","R","O","J","-","1",":"," ","f","i","x","\n","\n","w","h","y">>,
           <<"P","R","O","J","-","1",":"," ","f","i","x","\n","\n"," ","w","h","y"," ","\n">>,
           <<" "," ","P","R","O","J","-","1",":"," ","f","i","x"," "," ">>,
           <<"f","i","x"," ","b","u","g","\n","\n","w","h","y">>,
           <<" ","a","d","d"," ","f","e","a","t","u","r","e","s"," ","\n","\n","w","h","y">>,
           <<"a"," ","l","o","n","g"," ","m","e","s","s","a","g","e"," ","w","i","t","h","o","u","t"," ","a","n"," ","i","s","s","u","e"," ","i","d">>,
           <<"P","R","O","J","-","1",":"," ","f","i","x",":"," ","m","o","r","e">>,
           <<"P","_","2","-","1","0",":"," "," ","f","i","x">> }
         \cup { <<"P","R","O","J","-","1",":"," ">> \o Repeat(DEFAULT_MAX_LENGTH + d) : d \in {0, 1} }
         \cup { Repeat(DEFAULT_MAX_LENGTH + 1) },
      custom |->
         { <<>>,
           <<"[","F","E","A","T","]"," ","a","d","d"," ","x">>,
           <<"[","F","E","A","T","]"," ","a","d","d"," ","x","\n","m","o","r","e">>,
           <<"n","o"," ","b","r","a","c","k","e","t","s">>,
           <<"[","]"," ","x">>,
           <<"[","A","]"," ">>,
           <<"[","A","]","x">>,
           <<"f","e","a","t",":"," ","a","d","d"," ","x">>,
           <<"f","e","a","t","(","a","p","i",")",":"," ","a","d","d"," ","x">>,
           <<"f","e","a","t","(","a","p","i",":"," ","x">>,
           <<"f","e","a","t","(",")",":"," ","x">>,
           <<"f","e","a","t",":"," ">>,
           <<"f","e","a","t","(","a","p","i",")"," ","a","d","d"," ","x">> } ]

\* The answers typed or chosen at the prompts, by question.  A body is the
\* lines typed before the empty line that ends it.
Answers ==
    [ scope |-> {<<>>, <<"a","p","i">>, <<"d","b">>},
      description |-> { <<"a","d","d"," ","x">>, <<"A","d","d"," ","x">>, <<"a","d","d"," ","x",".">> },
      body |-> {<<>>, <<"w","h","y">>},
      footer |-> {<<>>, <<"R","e","f","s"," ","1">>},
      breaking |-> {<<>>, <<"x">>},
      subject |-> { <<"A","d","d"," ","x">>, <<"A","d","d","e","d"," ","x">>, <<"A","d","d"," ","f","e","a","t","u","r","e">>, <<"A","d","d"," ","x"," ","(","F","i","x","e","s"," ","#","1","2",")">> },
      lines |-> { <<>>, <<<<"w","h","y">>>>, <<<<"w","h","y">>, <<"m","o","r","e">>>> },
      issue_number |-> { <<"1","2">>, <<"7","a">> },
      project_key |-> { <<"P","R","O","J">>, <<"o","p","s">> },
      message |-> { <<"f","i","x"," ","b","u","g">>, <<"a","d","d"," ","f","e","a","t","u","r","e">>, <<"a","d","d"," ","f","e","a","t","u","r","e","s">> },
      value |-> { <<>>, <<"f","e","a","t">>, <<"a","d","d"," ","x">>, <<"{","m","e","s","s","a","g","e","}">> } ]

VARIABLES
    pc,         \* "idle", "failed", "constructed", "prompted", "prompt_raised",
                \* "validated", "validate_raised"
    config,     \* the configuration mapping the caller holds
    handler,    \* the constructed handler, or NoHandler
    answers,    \* the components the prompt collected, or NoAnswers
    message,    \* the message given to validate, or returned by the prompt
    outcome,    \* what the last operation returned or raised
    previous,   \* what an earlier validate of the same message returned
    cli         \* the command that runs, what it displayed and wrote, its exit code

vars == <<pc, config, handler, answers, message, outcome, previous, cli>>

NoHandler == [kind |-> "none"]
NoAnswers == [kind |-> "none"]
NoOutcome == [raised |-> "pending"]
NoMessage == None
NoCli == [command |-> "none"]

Init ==
    /\ pc = "idle"
    /\ config \in Configs
    /\ handler = NoHandler
    /\ answers = NoAnswers
    /\ message = NoMessage
    /\ outcome = NoOutcome
    /\ previous = NoOutcome
    /\ cli = NoCli

\* format_class(config): the __init__ of the class.
Construct(format_class, cfg) ==
    LET kind == get_format_name(format_class) IN
    CASE kind = "conventional" ->
            Returned([kind |-> kind, config |-> cfg])
      [] kind = "github" ->
            Returned([kind |-> kind, config |-> cfg,
                      issue_keywords |-> Get(cfg, "keywords", GitHubDefaultKeywords)])
      [] kind = "jira" ->
            Returned([kind |-> kind, config |-> cfg,
                      jira_project_keys |-> Get(cfg, "jira_project_keys", <<>>)])
      [] kind = "custom" ->
            LET pattern == Get(cfg, "custom_pattern", "")
            IN  IF pattern = "" \/ ~IsValidPattern(pattern)
                THEN Raised("InvalidPatternError")
                ELSE Returned([kind |-> kind, pattern |-> pattern,
                               named_groups |-> NamedGroups(pattern),
                               prompts |-> Get(cfg, "prompts", <<>>)])

\* get_commit_format(config): the handler it returns, or the error it raises.
get_commit_format(cfg) ==
    IF Get(cfg, "format_type", "conventional") \notin DOMAIN FORMAT_REGISTRY
    THEN UnknownFormat(Get(cfg, "format_type", "conventional"))
    ELSE Construct(FORMAT_REGISTRY[Get(cfg, "format_type", "conventional")], cfg)

\* A faulty GetCommitFormat that stores the format_type it used in the
\* configuration it was given.
GetCommitFormatStoring ==
    /\ pc = "idle"
    /\ LET made == get_commit_format(config)
       IN  IF made.raised # "none"
           THEN /\ pc' = "failed"
                /\ handler' = NoHandler
                /\ outcome' = made
           ELSE /\ pc' = "constructed"
                /\ handler' = made.value
                /\ outcome' = NoOutcome
    /\ config' = config @@ ("format_type" :> "conventional")
    /\ UNCHANGED <<answers, message, previous, cli>>

\* The caller asks for the handler of its configuration.
GetCommitFormat ==
    /\ pc = "idle"
    /\ LET made == get_commit_format(config)
       IN  IF made.raised # "none"
           THEN /\ pc' = "failed"
                /\ handler' = NoHandler
                /\ outcome' = made
           ELSE /\ pc' = "constructed"
                /\ handler' = made.value
                /\ outcome' = NoOutcome
    /\ UNCHANGED <<config, answers, message, previous, cli>>

\* handler.validate(commit_message)
HandlerValidate(self, msg) ==
    CASE self.kind = "conventional" -> Returned(ConventionalValidate(self.config, msg))
      [] self.kind = "github" -> GitHubValidate(self, msg)
      [] self.kind = "jira" -> Returned(JiraValidate(self.config, msg))
      [] self.kind = "custom" -> CustomValidate(self, msg)

ValidateCall(msg) ==
    /\ message' = msg
    /\ outcome' = HandlerValidate(handler, msg)
    /\ pc' = IF outcome'.raised = "none" THEN "validated" ELSE "validate_raised"
    /\ UNCHANGED <<config, handler, answers, previous, cli>>

\* The caller validates a message it read.
ValidateGiven ==
    /\ pc = "constructed"
    /\ \E msg \in Messages[handler.kind] : ValidateCall(msg)

\* The caller validates the message the prompt returned, with the same handler.
ValidatePrompted ==
    /\ pc = "prompted"
    /\ ValidateCall(message)

\* prompt_for_message(config) of a Conventional handler: the type and a
\* listed scope are chosen from the configured lists, the rest is typed.
ConventionalPrompt ==
    /\ pc = "constructed"
    /\ handler.kind = "conventional"
    /\ LET types == Get(config, "types", <<>>)
           scope_required == Get(config, "scope_required", FALSE)
           allowed_scopes == Get(config, "allowed_scopes", <<>>)
           scopes == IF allowed_scopes # <<>>
                     THEN Range(allowed_scopes)
                            \cup (IF scope_required THEN {} ELSE {<<>>})
                     ELSE Answers.scope \ (IF scope_required THEN {<<>>} ELSE {})
       IN  \E type \in Range(types), scope \in scopes, description \in Answers.description,
              yes_breaking \in BOOLEAN, breaking_text \in Answers.breaking,
              add_body \in BOOLEAN, body_text \in Answers.body,
              ask_footer \in BOOLEAN, additional \in Answers.footer :
             LET breaking == In(type, Get(config, "allowed_breaking_changes", <<>>))
                                /\ yes_breaking
                 breaking_description ==
                     IF ~breaking THEN <<>>
                     ELSE IF breaking_text # <<>> THEN breaking_text
                     ELSE <<"B","r","e","a","k","i","n","g"," ","c","h","a","n","g","e","s">>
                 body == IF ~Get(config, "body_required", FALSE) /\ ~add_body
                         THEN <<>> ELSE body_text
                 footer == ConventionalFooter(config, breaking,
                               BreakingFooter(breaking, breaking_description),
                               ask_footer, additional)
                 asked == ConventionalQuestions(config, type, breaking, add_body,
                                                ask_footer)
             IN  /\ answers' = [kind |-> "conventional", type |-> type, scope |-> scope,
                                breaking |-> breaking, description |-> description,
                                body |-> body, footer |-> footer, asked |-> asked,
                                breaking_description |-> breaking_description,
                                breaking_text |-> IF breaking THEN breaking_text
                                                  ELSE None,
                                additional |-> IF In("Enter footer", asked)
                                               THEN additional ELSE None]
                 /\ message' = ConventionalAssemble(type, scope, breaking, description,
                                                    body, footer)
    /\ outcome' = NoOutcome
    /\ pc' = "prompted"
    /\ UNCHANGED <<config, handler, previous, cli>>

\* prompt_for_message(config) of a GitHub handler.  The body is the typed
\* lines joined by newlines; the keyword is chosen from the configured list,
\* whose first entry is the default: with no keyword at all that is IndexError.
GitHubPrompt ==
    /\ pc = "constructed"
    /\ handler.kind = "github"
    /\ LET issue_keywords == Get(config, "keywords", GitHubDefaultKeywords)
           issue_required == Get(config, "issue_reference_required", FALSE)
       IN  \E subject \in Answers.subject, add_body \in BOOLEAN,
              lines \in Answers.lines \ {<<>>}, add_reference \in BOOLEAN :
             LET body == IF add_body THEN Join(lines, <<NL>>) ELSE <<>>
                 asked == issue_required \/ add_reference
             IN  IF asked /\ issue_keywords = <<>>
                 THEN /\ outcome' = Raised("IndexError")
                      /\ pc' = "prompt_raised"
                      /\ UNCHANGED <<answers, message>>
                 ELSE \E keyword \in IF asked THEN Range(issue_keywords) ELSE {<<>>},
                         issue_number \in IF asked THEN Answers.issue_number ELSE {<<>>} :
                        LET issue_reference ==
                                IF asked THEN GitHubReference(keyword, issue_number)
                                ELSE <<>>
                        IN  /\ answers' = [kind |-> "github", subject |-> subject,
                                           body |-> body, keyword |-> keyword,
                                           issue_number |-> issue_number,
                                           issue_reference |-> issue_reference,
                                           asked |-> GitHubQuestions(config, add_body,
                                                                     add_reference)]
                            /\ message' = GitHubAssemble(subject, body, issue_reference)
                            /\ outcome' = NoOutcome
                            /\ pc' = "prompted"
    /\ UNCHANGED <<config, handler, previous, cli>>

\* prompt_for_message(config) of a Jira handler.  The project key is chosen
\* from the configured keys, or typed when none is configured.
JiraPrompt ==
    /\ pc = "constructed"
    /\ handler.kind = "jira"
    /\ LET require_issue_id == Get(config, "require_issue_id", TRUE)
           jira_project_keys == Get(config, "jira_project_keys", <<>>)
           keys == IF jira_project_keys # <<>> THEN Range(jira_project_keys)
                   ELSE Answers.project_key
       IN  \E include_id \in BOOLEAN, project_key \in keys,
              issue_number \in Answers.issue_number, text \in Answers.message,
              add_body \in BOOLEAN, lines \in Answers.lines :
             LET asked == require_issue_id \/ include_id
                 issue_id == IF asked THEN JiraIssueId(project_key, issue_number)
                             ELSE <<>>
                 body == IF add_body THEN Join(lines, <<NL>>) ELSE <<>>
             IN  /\ answers' = [kind |-> "jira",
                                project_key |-> IF asked THEN project_key ELSE <<>>,
                                issue_number |-> IF asked THEN issue_number ELSE <<>>,
                                issue_id |-> issue_id, message |-> text, body |-> body]
                 /\ message' = JiraAssemble(issue_id, text, body)
    /\ outcome' = NoOutcome
    /\ pc' = "prompted"
    /\ UNCHANGED <<config, handler, previous, cli>>

\* prompt_for_message(config) of a Custom handler: one value is typed for
\* each named group of the pattern.
CustomPrompt ==
    /\ pc = "constructed"
    /\ handler.kind = "custom"
    /\ \E values \in [Range(handler.named_groups) -> Answers.value] :
          /\ answers' = [kind |-> "custom", values |-> values,
                         asked |-> CustomQuestions(handler)]
          /\ message' = CustomAssemble(config, handler.named_groups, values)
    /\ outcome' = NoOutcome
    /\ pc' = "prompted"
    /\ UNCHANGED <<config, handler, previous, cli>>

Next ==
    \/ GetCommitFormat
    \/ ValidateGiven
    \/ ValidatePrompted
    \/ ConventionalPrompt
    \/ GitHubPrompt
    \/ JiraPrompt
    \/ CustomPrompt

Spec == Init /\ [][Next]_vars

(***************************************************************************)
(* A message validated a second time                                       *)
(***************************************************************************)
\* A faulty EqualHandler constructed from the defaults of its format.
EqualHandlerDefaults(cfg) ==
    IF Get(cfg, "format_type", "conventional") = "custom"
    THEN get_commit_format(cfg).value
    ELSE get_commit_format("format_type" :> Get(cfg, "format_type", "conventional")).value

\* A second handler, constructed from a configuration equal to cfg.
EqualHandler(cfg) == get_commit_format(cfg).value

\* The caller validates the message once more with the same handler.
ValidateAgain ==
    /\ pc = "validated"
    /\ previous' = outcome
    /\ outcome' = HandlerValidate(handler, message)
    /\ pc' = "revalidated"
    /\ UNCHANGED <<config, handler, answers, message, cli>>

\* The caller validates the message with a second handler, constructed from
\* an equal configuration.
ValidateWithEqualHandler ==
    /\ pc = "validated"
    /\ previous' = outcome
    /\ outcome' = HandlerValidate(EqualHandler(config), message)
    /\ pc' = "validated_by_equal"
    /\ UNCHANGED <<config, handler, answers, message, cli>>

TwiceNext ==
    \/ GetCommitFormat
    \/ ValidateGiven
    \/ ValidateAgain
    \/ ValidateWithEqualHandler

TwiceSpec == Init /\ [][TwiceNext]_vars

(***************************************************************************)
(* Command line: cli.py                                                    *)
(***************************************************************************)
\* The configurations the commands are run with: those of at most
\* MaxCliOptions keys, and every configuration of the Custom handler.
MaxCliOptions == 2
CliConfigs ==
    {c \in Configs : Cardinality(DOMAIN c) <= MaxCliOptions} \cup CustomConfigs

\* The texts given to lint with -m, in a file or on the standard input, by
\* handler.
LintTexts ==
    [ conventional |-> { <<>>, <<"f","e","a","t",":"," ","a","d","d"," ","x">>, <<" ","f","e","a","t",":"," ","a","d","d"," ","x","\n">>,
                         <<"w","i","p","(","d","b",")","!",":"," ","A","d","d"," ","x",".">> },
      github |-> { <<>>, <<"A","d","d"," ","f","e","a","t","u","r","e">>, <<"A","d","d","e","d"," ","t","h","i","n","g">>, <<"\n","A","d","d"," ","x","\n","\n","F","i","x","e","s"," ","#","1","2","\n">> },
      jira |-> { <<>>, <<"P","R","O","J","-","1",":"," ","f","i","x"," ","b","u","g">>, <<"f","i","x"," ","b","u","g">>, <<"O","T","H","E","R","-","1",":"," ","a","d","d"," ","f","e","a","t","u","r","e","s"," ">> },
      custom |-> { <<>>, <<"[","F","E","A","T","]"," ","a","d","d"," ","x">>, <<"n","o"," ","b","r","a","c","k","e","t","s">>, <<"f","e","a","t",":"," ","a","d","d"," ","x">>,
                   <<"f","e","a","t","(","a","p","i",")",":"," ","a","d","d"," ","x","\n">> } ]

\* The command, given --format-type format_type ("" when it is not given),
\* has ended with exit code code, after the notices.
Exited(command, format_type, code, notices) ==
    [command |-> command, format_type |-> format_type, stage |-> "exited",
     exit_code |-> code, interactive |-> FALSE, file_arg |-> "none", file |-> None,
     notices |-> notices, errors |-> <<>>, panel |-> None, steps |-> <<>>,
     temp |-> "none", load_raised |-> FALSE]
\* The command goes on after _load_config_and_format.
Running(command, format_type) ==
    [Exited(command, format_type, -1,
            IF format_type # "" THEN <<"Using format type">> ELSE <<>>)
       EXCEPT !.stage = "loaded"]

\* A faulty OverrideFormat that sets format_type only where the loaded
\* configuration has none.
OverrideFormatMissing(cfg, format_type) ==
    IF format_type # "" THEN cfg @@ ("format_type" :> format_type) ELSE cfg

\* config["format_type"] = format_type, for a format_type that is given.
OverrideFormat(cfg, format_type) ==
    IF format_type # "" THEN ("format_type" :> format_type) @@ cfg ELSE cfg

\* _load_config_and_format(config_file, format_type): load_config reads the
\* configuration or raises; a format_type that is given and registered
\* overrides the one of the configuration; every exception, the Exit of an
\* unregistered format_type included, ends the command with code 1.
LoadConfigAndFormat ==
    /\ pc = "idle"
    /\ cli = NoCli
    /\ \E command \in {"lint", "create", "commit"}, readable \in BOOLEAN,
          format_type \in {"", "github", "gitlab"} :
         LET cfg == OverrideFormat(config, format_type)
             made == get_commit_format(cfg)
         IN  IF ~readable
             THEN /\ cli' = [Exited(command, format_type, 1, <<"Error loading config">>)
                              EXCEPT !.load_raised = TRUE]
                  /\ pc' = "failed"
                  /\ UNCHANGED <<config, handler, outcome>>
             ELSE IF format_type # "" /\ format_type \notin DOMAIN FORMAT_REGISTRY
             THEN /\ cli' = Exited(command, format_type, 1,
                                   <<"Invalid format type", "Valid formats">>
                                      \o RegistryKeys \o <<"Error loading config">>)
                  /\ pc' = "failed"
                  /\ UNCHANGED <<config, handler, outcome>>
             ELSE IF made.raised # "none"
             THEN /\ cli' = Exited(command, format_type, 1,
                                   (IF format_type # "" THEN <<"Using format type">>
                                    ELSE <<>>) \o <<"Error loading config">>)
                  /\ pc' = "failed"
                  /\ config' = cfg
                  /\ outcome' = made
                  /\ UNCHANGED handler
             ELSE /\ cli' = Running(command, format_type)
                  /\ pc' = "constructed"
                  /\ config' = cfg
                  /\ handler' = made.value
                  /\ UNCHANGED outcome
    /\ UNCHANGED <<answers, message, previous>>

\* _get_message_from_sources(message, file): the -m option when it is not
\* empty, else the file or the standard input with the whitespace around the
\* text removed; text is what the file or the standard input holds.
GetMessageFromSources(option, file_arg, text, stdin_tty) ==
    IF Truthy(option) THEN Returned(option)
    ELSE IF file_arg \in {"-", "exists"} THEN Returned(Strip(text))
    ELSE IF file_arg = "missing" THEN Raised("Exit")
    ELSE IF ~stdin_tty THEN Returned(Strip(text))
    ELSE Raised("Exit")

\* A faulty DisplayValidationErrors that shows the first error only.
DisplayValidationErrorsFirst(result) == SubSeq(result.errors, 1, 1)

\* _display_validation_errors(result): the errors it prints, one per line.
DisplayValidationErrors(result) == result.errors

\* lint, up to the interactive fix; interactive is the mode after it was
\* switched off for an output that is no terminal.  An exception of
\* validate is not caught and ends the command with code 1.
Lint ==
    /\ pc = "constructed"
    /\ cli.command = "lint"
    /\ cli.stage = "loaded"
    /\ \E interactive \in BOOLEAN, has_option \in BOOLEAN,
          file_arg \in {"none", "-", "exists", "missing"}, stdin_tty \in BOOLEAN,
          text \in LintTexts[handler.kind] :
       \E got \in {GetMessageFromSources(IF has_option THEN text ELSE None,
                                         file_arg, text, stdin_tty)} :
       \E result \in {IF got.raised # "none" THEN NoOutcome
                      ELSE HandlerValidate(handler, got.value)} :
         LET given == [cli EXCEPT !.interactive = interactive,
                                  !.file_arg = file_arg]
         IN  IF got.raised # "none"
             THEN /\ cli' = [given EXCEPT !.stage = "exited", !.exit_code = 1,
                                          !.notices = <<"Error">>]
                  /\ UNCHANGED <<message, outcome>>
             ELSE /\ message' = got.value
                  /\ outcome' = result
                  /\ cli' =
                       IF result.raised # "none"
                       THEN [given EXCEPT !.stage = "exited", !.exit_code = 1]
                       ELSE IF result.value.valid
                       THEN [given EXCEPT !.stage = "exited", !.exit_code = 0,
                                          !.notices = <<"Commit message is valid!">>]
                       ELSE IF given.interactive
                       THEN [given EXCEPT !.stage = "fix",
                                !.notices = <<"Commit message validation failed:">>,
                                !.errors = DisplayValidationErrors(result.value)]
                       ELSE [given EXCEPT !.stage = "exited", !.exit_code = 1,
                                !.notices = <<"Commit message validation failed:">>,
                                !.errors = DisplayValidationErrors(result.value)]
    /\ UNCHANGED <<pc, config, handler, answers, previous>>

\* commit_format.prompt_for_message(config), as create calls it after
\* loading and _handle_interactive_fix calls it for an invalid message.
CliPrompt ==
    /\ \/ cli.command \in {"create", "commit"} /\ cli.stage = "loaded"
       \/ cli.command = "lint" /\ cli.stage = "fix"
    /\ \/ ConventionalPrompt
       \/ GitHubPrompt
       \/ JiraPrompt
       \/ CustomPrompt

\* An exception of prompt_for_message is not caught: the command ends with
\* code 1.
UncaughtPromptError ==
    /\ pc = "prompt_raised"
    /\ cli.command # "none"
    /\ cli.stage # "exited"
    /\ cli' = [cli EXCEPT !.stage = "exited", !.exit_code = 1]
    /\ UNCHANGED <<pc, config, handler, answers, message, outcome, previous>>

\* _validate_and_display_message: what it prints for the result.
ValidateAndDisplayMessage(result) ==
    IF ~result.valid
    THEN [notices |-> <<"Warning: The generated commit message has validation issues:">>,
          errors |-> result.errors]
    ELSE [notices |-> <<"Commit message is valid!">>, errors |-> <<>>]

\* A faulty SaveOrDisplayMessage that opens the output file and writes
\* nothing.
SaveOrDisplayMessageEmpty(commit_message, output_file) ==
    IF output_file
    THEN [file |-> <<>>, notices |-> <<"Commit message saved">>, panel |-> None]
    ELSE [file |-> None, notices |-> <<>>, panel |-> commit_message]

\* _save_or_display_message: the content of the output file when one is
\* given, else the panel that shows the message.
SaveOrDisplayMessage(commit_message, output_file) ==
    IF output_file
    THEN [file |-> commit_message, notices |-> <<"Commit message saved">>, panel |-> None]
    ELSE [file |-> None, notices |-> <<>>, panel |-> commit_message]

\* create, after prompt_for_message has returned: an exception of validate
\* is not caught and ends the command with code 1 before anything is saved.
Create ==
    /\ pc = "prompted"
    /\ cli.command = "create"
    /\ cli.stage = "loaded"
    /\ \E output_file \in BOOLEAN, result \in {HandlerValidate(handler, message)} :
         LET displayed == ValidateAndDisplayMessage(result.value)
             saved == SaveOrDisplayMessage(message, output_file)
         IN  /\ outcome' = result
             /\ pc' = IF result.raised = "none" THEN "validated" ELSE "validate_raised"
             /\ cli' =
                  IF result.raised # "none"
                  THEN [cli EXCEPT !.stage = "exited", !.exit_code = 1,
                                   !.file_arg = IF output_file THEN "exists" ELSE "none"]
                  ELSE [cli EXCEPT !.stage = "exited",
                           !.exit_code = IF ~result.value.valid THEN 1 ELSE 0,
                           !.file_arg = IF output_file THEN "exists" ELSE "none",
                           !.file = saved.file,
                           !.notices = displayed.notices \o saved.notices,
                           !.errors = displayed.errors,
                           !.panel = saved.panel]
    /\ UNCHANGED <<config, handler, answers, message, previous>>

\* _handle_interactive_fix, after prompt_for_message has returned: the new
\* message is written to the file when one was given, else displayed.
HandleInteractiveFix ==
    /\ pc = "prompted"
    /\ cli.command = "lint"
    /\ cli.stage = "fix"
    /\ cli' = IF cli.file_arg # "none"
              THEN [cli EXCEPT !.stage = "exited", !.exit_code = 0, !.file = message,
                       !.notices = @ \o <<"New commit message saved to file.">>]
              ELSE [cli EXCEPT !.stage = "exited", !.exit_code = 0, !.panel = message]
    /\ pc' = "fixed"
    /\ UNCHANGED <<config, handler, answers, message, outcome, previous>>

\* A faulty CheckStagedChanges that goes on after the answer no.
CheckStagedChangesAnyway(git) ==
    IF git.diff_fails
    THEN [ok |-> FALSE, steps |-> <<"git diff">>,
          notices |-> <<"Failed to check staged changes">>]
    ELSE IF git.staged
    THEN [ok |-> TRUE, steps |-> <<"git diff">>, notices |-> <<>>]
    ELSE IF ~git.confirm_stage
    THEN [ok |-> TRUE, steps |-> <<"git diff", "Stage all changes?">>,
          notices |-> <<"Warning: No staged changes to commit.",
                        "Use 'git add' to stage changes and try again.">>]
    ELSE IF git.add_fails
    THEN [ok |-> FALSE, steps |-> <<"git diff", "Stage all changes?", "git add">>,
          notices |-> <<"Warning: No staged changes to commit.",
                        "Failed to check staged changes">>]
    ELSE [ok |-> TRUE, steps |-> <<"git diff", "Stage all changes?", "git add">>,
          notices |-> <<"Warning: No staged changes to commit.",
                        "All changes staged for commit.">>]

\* _check_staged_changes(): whether commit goes on, the git commands and
\* questions in the order they happen, and what is printed.  A git command
\* that fails ends the command with code 1, and so does the answer no.
CheckStagedChanges(git) ==
    IF git.diff_fails
    THEN [ok |-> FALSE, steps |-> <<"git diff">>,
          notices |-> <<"Failed to check staged changes">>]
    ELSE IF git.staged
    THEN [ok |-> TRUE, steps |-> <<"git diff">>, notices |-> <<>>]
    ELSE IF ~git.confirm_stage
    THEN [ok |-> FALSE, steps |-> <<"git diff", "Stage all changes?">>,
          notices |-> <<"Warning: No staged changes to commit.",
                        "Use 'git add' to stage changes and try again.">>]
    ELSE IF git.add_fails
    THEN [ok |-> FALSE, steps |-> <<"git diff", "Stage all changes?", "git add">>,
          notices |-> <<"Warning: No staged changes to commit.",
                        "Failed to check staged changes">>]
    ELSE [ok |-> TRUE, steps |-> <<"git diff", "Stage all changes?", "git add">>,
          notices |-> <<"Warning: No staged changes to commit.",
                        "All changes staged for commit.">>]

\* _run_git_commit(commit_message, skip_hooks): the message is written to a
\* temporary file and git commit -F runs; when git cannot be started the
\* file is removed and the exception goes on.
RunGitCommit(git) ==
    IF git.run_raises
    THEN [ran |-> FALSE, steps |-> <<"write temp", "unlink temp">>, temp |-> "removed"]
    ELSE [ran |-> TRUE, steps |-> <<"write temp", "git commit">>, temp |-> "written"]

\* _handle_commit_failure(commit_process, commit_message, output_file): the
\* message is saved to the output file, or to .git/COMMIT_EDITMSG after a
\* yes; it returns 1.
HandleCommitFailure(commit_message, git) ==
    IF git.output_file
    THEN [file |-> commit_message, steps |-> <<"save message">>]
    ELSE IF git.confirm_save
    THEN [file |-> commit_message, steps |-> <<"Save commit message?", "save message">>]
    ELSE [file |-> None, steps |-> <<"Save commit message?">>]

\* What git and the user do during commit: only what the run gets to ask
\* for is varied.
GitRuns ==
    { g \in [diff_fails : BOOLEAN, staged : BOOLEAN, confirm_stage : BOOLEAN,
             add_fails : BOOLEAN, run_raises : BOOLEAN, returncode : {0, 1},
             output_file : BOOLEAN, confirm_save : BOOLEAN] :
        /\ g.diff_fails => g.staged
        /\ g.staged => ~g.confirm_stage
        /\ ~g.confirm_stage => ~g.add_fails
        /\ ~CheckStagedChanges(g).ok => ~g.run_raises
        /\ (~CheckStagedChanges(g).ok \/ g.run_raises) => g.returncode = 0
        /\ g.returncode = 0 => ~g.confirm_save
        /\ g.output_file => ~g.confirm_save }

\* commit, after prompt_for_message has returned.  An exception of validate
\* or of starting git is not caught and ends the command with code 1; the
\* finally clause removes the temporary file after git commit has run.
Commit ==
    /\ pc = "prompted"
    /\ cli.command = "commit"
    /\ cli.stage = "loaded"
    /\ \E result \in {HandlerValidate(handler, message)} :
       LET ended == [cli EXCEPT !.stage = "exited", !.exit_code = 1,
                                !.steps = <<"validate">>]
       IN  /\ outcome' = result
           /\ pc' = IF result.raised = "none" THEN "validated" ELSE "validate_raised"
           /\ IF result.raised # "none"
              THEN cli' = ended
              ELSE \E confirm_invalid \in IF result.value.valid THEN {TRUE} ELSE BOOLEAN :
                     LET warned == IF result.value.valid THEN ended
                                   ELSE [ended EXCEPT
                                           !.notices = @ \o <<"Warning: The commit message has validation issues:">>,
                                           !.errors = result.value.errors,
                                           !.steps = @ \o <<"Continue with invalid commit message?">>]
                     IN  IF ~confirm_invalid
                         THEN cli' = warned
                         ELSE \E git \in GitRuns :
                                LET checked == CheckStagedChanges(git)
                                    run == RunGitCommit(git)
                                    failure == HandleCommitFailure(message, git)
                                    staged == [warned EXCEPT
                                                 !.steps = @ \o checked.steps,
                                                 !.notices = @ \o checked.notices]
                                    started == [staged EXCEPT
                                                  !.steps = @ \o run.steps,
                                                  !.temp = run.temp]
                                IN  cli' =
                                      IF ~checked.ok THEN staged
                                      ELSE IF ~run.ran THEN started
                                      ELSE IF git.returncode = 0
                                      THEN [started EXCEPT
                                              !.exit_code = 0,
                                              !.notices = @ \o <<"Changes committed successfully!">>,
                                              !.steps = @ \o <<"unlink temp">>,
                                              !.temp = "removed"]
                                      ELSE [started EXCEPT
                                              !.notices = @ \o <<"Git commit failed:">>,
                                              !.file = failure.file,
                                              !.steps = @ \o failure.steps \o <<"unlink temp">>,
                                              !.temp = "removed"]
    /\ UNCHANGED <<config, handler, answers, message, previous>>

CliInit == Init /\ config \in CliConfigs

CliNext ==
    \/ LoadConfigAndFormat
    \/ Lint
    \/ CliPrompt
    \/ UncaughtPromptError
    \/ Create
    \/ Commit
    \/ HandleInteractiveFix

CliSpec == CliInit /\ [][CliNext]_vars

(***************************************************************************)
(* Command line: init and the configuration files it writes.               *)
(***************************************************************************)
\* A file that does not exist, and one that holds no TOML document.
Absent == [kind |-> "absent"]
Unparsable == [kind |-> "unparsable"]
\* A file that holds the TOML document data; comments is whether the text
\* holds comments, which tomli.load drops.
Toml(data, comments) == [kind |-> "toml", data |-> data, comments |-> comments]

\* _get_format_specific_defaults(format_type): every value is a string.
GetFormatSpecificDefaults(format_type) ==
    CASE format_type = "conventional" ->
            [types |-> <<"f","e","a","t",",","f","i","x",",","d","o","c","s",",","s","t","y","l","e",",","r","e","f","a","c","t","o","r",",","p","e","r","f",",","t","e","s","t",",","b","u","i","l","d",",","c","i",",","c","h","o","r","e",",","r","e","v","e","r","t">>,
             max_subject_length |-> <<"1","0","0">>, subject_case |-> <<"l","o","w","e","r">>,
             scope_required |-> <<"F","a","l","s","e">>, allowed_breaking_changes |-> <<"f","e","a","t",",","f","i","x">>,
             no_period_end |-> <<"T","r","u","e">>]
      [] format_type = "github" ->
            [max_subject_length |-> <<"7","2">>, imperative_mood |-> <<"T","r","u","e">>,
             issue_reference_required |-> <<"F","a","l","s","e">>,
             keywords |-> <<"F","i","x","e","s",",","C","l","o","s","e","s",",","R","e","s","o","l","v","e","s">>]
      [] format_type = "jira" ->
            [jira_project_keys |-> <<"P","R","O","J">>, require_issue_id |-> <<"T","r","u","e">>,
             max_message_length |-> <<"7","2">>]
      [] format_type = "custom" ->
            [custom_pattern |-> P_Bracket, message_template |-> T_Bracket,
             category_prompt |-> <<"C","a","t","e","g","o","r","y"," ","(","e",".","g","."," ","F","E","A","T","U","R","E",","," ","B","U","G","F","I","X",")">>,
             message_prompt |-> <<"C","o","m","m","i","t"," ","m","e","s","s","a","g","e">>]
      [] OTHER -> <<>>

\* init: config = {"format_type": format_type}; config.update(defaults).
InitConfig(format_type) ==
    GetFormatSpecificDefaults(format_type) @@ ("format_type" :> format_type)

\* A faulty WriteToPyproject that writes the new table alone over an
\* existing file.
WriteToPyprojectAlone(existing, new_config) ==
    IF existing = Unparsable
    THEN Raised("Exit")
    ELSE Returned(Toml("tool" :> ("commit_lint" :> new_config), FALSE))

\* _write_to_pyproject(pyproject_path, config): the file it leaves, or the
\* Exit for an existing file that does not parse.  tomli_w.dump writes the
\* document and no comment.
WriteToPyproject(existing, new_config) ==
    IF existing = Absent
    THEN Returned(Toml("tool" :> ("commit_lint" :> new_config), FALSE))
    ELSE IF existing = Unparsable
    THEN Raised("Exit")
    ELSE LET existing_config ==
                 IF "tool" \notin DOMAIN existing.data
                 THEN existing.data @@ ("tool" :> <<>>)
                 ELSE existing.data
         IN  Returned(Toml([existing_config EXCEPT
                              !["tool"] = ("commit_lint" :> new_config) @@ @],
                           FALSE))

\* _write_config_to_file(output_file, config): the files it leaves and what
\* it prints; an exception ends the command with code 1.
WriteConfigToFile(files, output_file, new_config) ==
    LET written == IF output_file = "pyproject.toml"
                   THEN WriteToPyproject(files[output_file], new_config)
                   ELSE Returned(Toml(new_config, FALSE))
    IN  IF written.raised # "none"
        THEN [files |-> files, exit_code |-> 1,
              notices |-> <<"Error reading existing pyproject.toml",
                            "Failed to write configuration">>]
        ELSE [files |-> [files EXCEPT ![output_file] = written.value],
              exit_code |-> 0, notices |-> <<"Configuration created">>]

\* The documents a pyproject.toml holds: a project table or none, a tool
\* table or none, with the table of another tool and an earlier, possibly
\* empty, one of commit-lint.
Documents ==
    { pr @@ to :
        pr \in Option("project", {"name" :> <<"d","e","m","o">>}),
        to \in {<<>>} \cup
               { "tool" :> (bl @@ cl) :
                   bl \in Option("black", {"line-length" :> <<"8","8">>}),
                   cl \in Option("commit_lint",
                                 { ("format_type" :> <<"j","i","r","a">>)
                                      @@ ("require_issue_id" :> FALSE),
                                   <<>> }) } }
\* The configuration files in the directory before init runs.
FileSystems ==
    [ {"pyproject.toml", "commit-lint.toml"} ->
        {Absent, Unparsable} \cup {Toml(d, c) : d \in Documents, c \in BOOLEAN} ]

\* init(output_file, format_type)
InitCommand ==
    /\ cli.command = "init"
    /\ cli.stage = "start"
    /\ \E output_file \in DOMAIN cli.files, format_type \in DOMAIN FORMAT_REGISTRY \cup {"gitlab", ""} :
         cli' =
           IF format_type \notin DOMAIN FORMAT_REGISTRY
           THEN [cli EXCEPT !.stage = "exited", !.exit_code = 1,
                            !.output_file = output_file, !.format_type = format_type,
                            !.notices = <<"Invalid format type", "Valid formats">>
                                           \o RegistryKeys]
           ELSE LET done == WriteConfigToFile(cli.files, output_file,
                                              InitConfig(format_type))
                IN  [cli EXCEPT !.stage = "exited", !.exit_code = done.exit_code,
                                !.output_file = output_file,
                                !.format_type = format_type,
                                !.files = done.files, !.notices = done.notices]
    /\ UNCHANGED <<pc, config, handler, answers, message, outcome, previous>>

\* init starts in a directory holding any of the file systems.
InitInit ==
    /\ pc = "idle"
    /\ config = <<>>
    /\ handler = NoHandler
    /\ answers = NoAnswers
    /\ message = NoMessage
    /\ outcome = NoOutcome
    /\ previous = NoOutcome
    /\ cli \in { [command |-> "init", stage |-> "start", exit_code |-> -1,
                  output_file |-> "", format_type |-> "", before |-> fs,
                  files |-> fs, notices |-> <<>>] : fs \in FileSystems }

InitSpec == InitInit /\ [][InitCommand]_vars

(***************************************************************************)
(* Configuration files: config.py                                          *)
(***************************************************************************)
\* The directories between the root, 0, and the deepest working directory;
\* the parent of a directory is the one above it, and the root is its own
\* parent.
MaxDepth == 2
Parent(dir) == IF dir = 0 THEN 0 ELSE dir - 1

\* get_default_config()
GetDefaultConfig ==
    [format_type |-> "conventional",
     types |-> <<<<"f","e","a","t">>, <<"f","i","x">>, <<"d","o","c","s">>, <<"s","t","y","l","e">>, <<"r","e","f","a","c","t","o","r">>, <<"p","e","r","f">>,
                 <<"t","e","s","t">>, <<"b","u","i","l","d">>, <<"c","i">>, <<"c","h","o","r","e">>, <<"r","e","v","e","r","t">>>>,
     max_subject_length |-> ConventionalDefaultMaxSubject,
     subject_case |-> "lower",
     scope_required |-> FALSE,
     allowed_breaking_changes |-> <<<<"f","e","a","t">>, <<"f","i","x">>>>,
     no_period_end |-> TRUE]

\* get_config_paths(), from the working directory dir_path: the two
\* candidates of each directory while the directory is not its own parent.
RECURSIVE GetConfigPaths(_)
GetConfigPaths(dir_path) ==
    IF dir_path = Parent(dir_path) THEN <<>>
    ELSE << <<dir_path, "pyproject.toml">>, <<dir_path, "commit-lint.toml">> >>
            \o GetConfigPaths(Parent(dir_path))

\* _parse_config_file(file_path) of a file that exists: the table
\* tool.commit_lint of a pyproject.toml, empty when there is none, and the
\* whole document of another file; ValueError when it does not parse.
ParseConfigFile(name, file) ==
    IF file = Unparsable THEN Raised("ValueError")
    ELSE IF name = "pyproject.toml"
    THEN Returned(Get(Get(file.data, "tool", <<>>), "commit_lint", <<>>))
    ELSE Returned(file.data)

\* _search_and_load_config(): the configuration of the first path of
\* paths[i..] that exists, parses and is not empty, else the defaults.
RECURSIVE SearchAndLoadConfig(_, _, _)
SearchAndLoadConfig(fs, paths, i) ==
    IF i > Len(paths) THEN GetDefaultConfig
    ELSE LET file == fs[paths[i]]
             parsed == ParseConfigFile(paths[i][2], file)
         IN  IF file # Absent /\ parsed.raised = "none" /\ parsed.value # <<>>
             THEN parsed.value
             ELSE SearchAndLoadConfig(fs, paths, i + 1)

\* load_config(config_path) in the working directory cwd; config_path is
\* None or the path of a file.
load_config(fs, cwd, config_path) ==
    IF config_path # None
    THEN IF fs[config_path] = Absent THEN Raised("FileNotFoundError")
         ELSE ParseConfigFile(config_path[2], fs[config_path])
    ELSE Returned(SearchAndLoadConfig(fs, GetConfigPaths(cwd), 1))

\* The configuration a file of the directory dir holds: the files differ in
\* max_subject_length.
ConfigOf(dir, name) ==
    ("format_type" :> "github")
       @@ ("max_subject_length" :> 50 + 2 * dir + (IF name = "pyproject.toml" THEN 0 ELSE 1))
\* What a candidate file may be: absent, not TOML, TOML without a
\* configuration, or TOML with one.
CandidateFiles(dir, name) ==
    { Absent, Unparsable,
      Toml(IF name = "pyproject.toml" THEN "project" :> ("name" :> <<"d","e","m","o">>) ELSE <<>>,
           FALSE),
      Toml(IF name = "pyproject.toml"
           THEN "tool" :> ("commit_lint" :> ConfigOf(dir, name))
           ELSE ConfigOf(dir, name),
           FALSE) }
ConfigPaths == (0..MaxDepth) \X {"pyproject.toml", "commit-lint.toml"}
ConfigFileSystems ==
    { fs \in [ConfigPaths -> UNION {CandidateFiles(p[1], p[2]) : p \in ConfigPaths}] :
        \A p \in ConfigPaths : fs[p] \in CandidateFiles(p[1], p[2]) }

\* A caller loads the configuration, with a path or without.
LoadConfig ==
    /\ cli.command = "load_config"
    /\ cli.stage = "start"
    /\ \E config_path \in ConfigPaths \cup {None} :
         cli' = [cli EXCEPT !.stage = "exited", !.config_path = config_path,
                            !.result = load_config(cli.fs, cli.cwd, config_path)]
    /\ UNCHANGED <<pc, config, handler, answers, message, outcome, previous>>

ConfigInit ==
    /\ pc = "idle"
    /\ config = <<>>
    /\ handler = NoHandler
    /\ answers = NoAnswers
    /\ message = NoMessage
    /\ outcome = NoOutcome
    /\ previous = NoOutcome
    /\ cli \in { [command |-> "load_config", stage |-> "start", fs |-> fs, cwd |-> cwd,
                  config_path |-> None, result |-> NoOutcome] :
                    fs \in ConfigFileSystems, cwd \in 0..MaxDepth }

ConfigSpec == ConfigInit /\ [][LoadConfig]_vars

(***************************************************************************)
(* Properties of validate and of the prompt/validate round trip.           *)
(***************************************************************************)
AllDigits(s) == s # <<>> /\ \A i \in DOMAIN s : IsDigit(s[i])

\* C1: validate of every constructed handler returns a result for every input
\* string and never raises an exception.
ValidateNeverRaises == pc # "validate_raised"

\* C2: in every result validate returns, on every return path of the four
\* handlers, errors is empty if and only if valid is true.
ErrorsEmptyIffValid ==
    pc = "validated" => ((outcome.value.errors = <<>>) <=> outcome.value.valid)

\* A Conventional message that matched the pattern and broke two rules or more.
ErrorsEmptyIffValidWitness ==
    /\ pc = "validated"
    /\ handler.kind = "conventional"
    /\ outcome.value.description # None
    /\ Len(outcome.value.errors) >= 2
    /\ ~outcome.value.valid

\* The answers of a Conventional prompt satisfy the configuration: the type
\* and the scope are chosen as the prompt permits; the description starts with
\* a lowercase letter and has no trailing period, the header is within
\* max_subject_length, and a required body or footer is not empty.
ConventionalAnswersSatisfy ==
    /\ answers.kind = "conventional"
    /\ "subject_case" \notin DOMAIN config
    /\ IsLower(answers.description[1])
    /\ answers.description[Len(answers.description)] # "."
    /\ Len(answers.type)
         + (IF answers.scope # <<>> THEN Len(answers.scope) + 2 ELSE 0)
         + (IF answers.breaking THEN 1 ELSE 0)
         + 2 + Len(answers.description)
         <= Get(config, "max_subject_length", ConventionalDefaultMaxSubject)
    /\ Get(config, "body_required", FALSE) => answers.body # <<>>
    /\ Get(config, "footer_required", FALSE) => answers.footer # <<>>

\* C3: the message a Conventional prompt returns for answers that satisfy the
\* configuration validates as valid under the same configuration.
ConventionalRoundTrip ==
    (pc = "validated" /\ ConventionalAnswersSatisfy) => outcome.value.valid

\* The answers of a GitHub prompt satisfy the configuration: an imperative
\* subject within max_subject_length and, when a reference is entered, a
\* numeric issue number (the keyword is chosen from the configured keywords).
GitHubAnswersSatisfy ==
    /\ answers.kind = "github"
    /\ ~In(Lower(FirstWord(answers.subject)), NonImperativeStarters)
    /\ Len(answers.subject) <= Get(config, "max_subject_length", GitHubDefaultMaxSubject)
    /\ answers.issue_reference # <<>> => AllDigits(answers.issue_number)

\* C4: the message a GitHub prompt returns for answers that satisfy the
\* configuration validates as valid under the same configuration, with a body
\* and without one.
GitHubRoundTrip ==
    (pc = "validated" /\ GitHubAnswersSatisfy) => outcome.value.valid

\* The answers of a Jira prompt satisfy the configuration: a numeric issue
\* number when an issue id is entered, and a non-empty message within
\* max_message_length (the project key is chosen from the configured keys).
JiraAnswersSatisfy ==
    /\ answers.kind = "jira"
    /\ answers.issue_id # <<>> => AllDigits(answers.issue_number)
    /\ answers.message # <<>>
    /\ Len(answers.message) <= Get(config, "max_message_length", DEFAULT_MAX_LENGTH)

\* C5: the message a Jira prompt returns for answers that satisfy the
\* configuration validates as valid under the same configuration, with
\* issue_id and message equal to the entered values.
JiraRoundTrip ==
    (pc = "validated" /\ JiraAnswersSatisfy) =>
        /\ outcome.value.valid
        /\ outcome.value.issue_id =
              (IF answers.issue_id = <<>> THEN None ELSE answers.issue_id)
        /\ outcome.value.message = answers.message

\* C6: when the first line does not match the issue-id pattern and
\* require_issue_id is true, the Jira result has exactly one error, the
\* missing issue id error, whatever the length of the message.
JiraMissingIdSingleError ==
    (/\ pc = "validated"
     /\ handler.kind = "jira"
     /\ Get(config, "require_issue_id", TRUE)
     /\ ~JiraIdMatch(JiraFirstBody(message).first).matched)
    => outcome.value.errors =
          << <<"Commit message must start with a Jira issue ID (e.g., PROJECT-123: message)">> >>

\* The nine rules of the Conventional format, each decided on its own from
\* the configuration c and the parsed fields r of a result: whether the rule
\* is broken, and the error that reports it.
RuleBroken(c, r) ==
    << /\ Get(c, "types", <<>>) # <<>>
       /\ r.type \notin Range(Get(c, "types", <<>>)),
       Get(c, "scope_required", FALSE) /\ r.scope \in {None, <<>>},
       /\ Get(c, "allowed_scopes", <<>>) # <<>>
       /\ r.scope \notin {None, <<>>}
       /\ r.scope \notin Range(Get(c, "allowed_scopes", <<>>)),
       r.breaking /\ r.type \notin Range(Get(c, "allowed_breaking_changes", <<>>)),
       Len(r.type) + (IF r.scope \in {None, <<>>} THEN 0 ELSE Len(r.scope) + 2)
           + (IF r.breaking THEN 1 ELSE 0) + 2 + Len(r.description)
         > Get(c, "max_subject_length", ConventionalDefaultMaxSubject),
       \/ Get(c, "subject_case", "lower") = "lower" /\ ~IsLower(r.description[1])
       \/ Get(c, "subject_case", "lower") = "upper" /\ ~IsUpper(r.description[1]),
       /\ Get(c, "no_period_end", TRUE)
       /\ \E k \in DOMAIN r.description :
            /\ r.description[k] = "."
            /\ \A j \in (k + 1)..Len(r.description) : IsSpace(r.description[j]),
       Get(c, "body_required", FALSE) /\ r.body \in {None, <<>>},
       Get(c, "footer_required", FALSE) /\ r.footer \in {None, <<>>} >>
RuleError(c) ==
    << "Invalid type",
       "Scope is required",
       "Invalid scope",
       "Breaking changes not allowed for type",
       "Subject line too long",
       IF Get(c, "subject_case", "lower") = "lower"
       THEN "Subject description must start with lowercase"
       ELSE "Subject description must start with uppercase",
       "Subject description should not end with period",
       "Body is required",
       "Footer is required" >>
\* The rules that are broken, in rule order.
BrokenRules(c, r) == SelectSeq(<<1, 2, 3, 4, 5, 6, 7, 8, 9>>, LAMBDA i : RuleBroken(c, r)[i])

\* C7: for a message that matches the pattern, the errors of Conventional
\* validate are exactly one entry for each broken rule, in rule order: no
\* check is skipped because an earlier one failed.
ConventionalReportsEveryBrokenRule ==
    (/\ pc = "validated"
     /\ handler.kind = "conventional"
     /\ outcome.value.description # None)
    => /\ Len(outcome.value.errors) = Len(BrokenRules(config, outcome.value))
       /\ \A i \in DOMAIN outcome.value.errors :
            outcome.value.errors[i][1]
              = RuleError(config)[BrokenRules(config, outcome.value)[i]]

\* A matched message that breaks four rules or more, the last of them the
\* footer rule.
ConventionalReportsEveryBrokenRuleWitness ==
    /\ pc = "validated"
    /\ handler.kind = "conventional"
    /\ outcome.value.description # None
    /\ Len(outcome.value.errors) >= 4
    /\ outcome.value.errors[Len(outcome.value.errors)] = <<"Footer is required">>

\* C8: a message that does not match the structural pattern of the
\* Conventional, GitHub or Custom handler gives valid=false with exactly the
\* handler's generic error, every parsed field at its default, and for
\* Custom the message echoed.
StructuralMismatchGenericError ==
    pc = "validated" =>
      /\ (handler.kind = "conventional" /\ ~ConventionalMatch(message).matched)
         => outcome.value =
              [kind |-> "conventional", valid |-> FALSE,
               errors |-> << <<"Commit message does not follow Conventional Commits format">> >>,
               type |-> None, scope |-> None, breaking |-> FALSE,
               description |-> None, body |-> None, footer |-> None]
      /\ (handler.kind = "github" /\ ~GitHubSplit(message).matched)
         => outcome.value =
              [kind |-> "github", valid |-> FALSE,
               errors |-> << <<"Invalid commit message format">> >>,
               message |-> None, issue_reference |-> None, issue_keyword |-> None]
      /\ (handler.kind = "custom" /\ ~CustomMatch(handler.pattern, message).matched)
         => outcome.value =
              [kind |-> "custom", valid |-> FALSE,
               errors |-> << <<"Commit message does not match the custom pattern">> >>,
               message |-> message, matches |-> <<>>]

\* A non-empty message that the pattern of a Custom handler does not match.
StructuralMismatchGenericErrorWitness ==
    /\ pc = "validated"
    /\ handler.kind = "custom"
    /\ message # <<>>
    /\ ~CustomMatch(handler.pattern, message).matched
    /\ ~outcome.value.valid

\* The state after Conventional validate with a types list configured and
\* every rule option but max_subject_length at its default.
TypesOnlyValidated ==
    /\ pc = "validated"
    /\ handler.kind = "conventional"
    /\ "types" \in DOMAIN config
    /\ DOMAIN config \subseteq {"format_type", "types", "max_subject_length"}
\* The message is "<t>: d" within max_subject_length, d starting with a
\* lowercase letter.
TypedMessage(t, d) ==
    /\ message = t \o <<":", " ">> \o d
    /\ d # <<>>
    /\ IsLower(d[1])
    /\ Len(message) <= Get(config, "max_subject_length", ConventionalDefaultMaxSubject)
\* The texts that can follow "<t>: " in the message.
Descriptions(t) == {Drop(message, Len(t) + 2)}

\* C9 as stated: with types T configured and the other options at their
\* defaults, a message "<t>: description" with t in T, the description
\* starting with a lowercase letter and not ending in a period, and the total
\* length at most max_subject_length, is valid with type t and that description.
TypedMessageValidAsStated ==
    TypesOnlyValidated =>
      \A t \in Range(config.types) : \A d \in Descriptions(t) :
        (TypedMessage(t, d) /\ d[Len(d)] # ".")
        => /\ outcome.value.valid
           /\ outcome.value.type = t
           /\ outcome.value.description = d

\* C9, amended: the same, for a type of word characters and a description of
\* one line that does not end in a period once trailing whitespace is removed.
TypedMessageValid ==
    TypesOnlyValidated =>
      \A t \in Range(config.types) : \A d \in Descriptions(t) :
        (/\ TypedMessage(t, d)
         /\ \A i \in DOMAIN t : IsWord(t[i])
         /\ \A i \in DOMAIN d : d[i] # NL
         /\ ~\E k \in DOMAIN d :
               d[k] = "." /\ \A j \in (k + 1)..Len(d) : IsSpace(d[j]))
        => /\ outcome.value.valid
           /\ outcome.value.type = t
           /\ outcome.value.description = d

\* The second of two configured types, followed by a lowercase description.
TypedMessageValidWitness ==
    /\ TypesOnlyValidated
    /\ Len(config.types) = 2
    /\ TypedMessage(config.types[2], Drop(message, Len(config.types[2]) + 2))
    /\ outcome.value.valid
    /\ outcome.value.type = config.types[2]

\* The line a handler measures, from the fields of its result r (-1 when
\* the result holds no parsed line), the configured maximum, and the error
\* that reports a line that is too long.
MeasuredLength(kind, r) ==
    CASE kind = "conventional" ->
            IF r.description = None THEN -1
            ELSE Len(r.type) + (IF r.scope \in {None, <<>>} THEN 0 ELSE Len(r.scope) + 2)
                   + (IF r.breaking THEN 1 ELSE 0) + 2 + Len(r.description)
      [] kind = "github" -> IF r.message = None THEN -1 ELSE Len(r.message)
      [] kind = "jira" -> Len(r.message)
      [] OTHER -> -1
MaximumLength(kind, c) ==
    CASE kind = "conventional" -> Get(c, "max_subject_length", ConventionalDefaultMaxSubject)
      [] kind = "github" -> Get(c, "max_subject_length", GitHubDefaultMaxSubject)
      [] kind = "jira" -> Get(c, "max_message_length", DEFAULT_MAX_LENGTH)
      [] OTHER -> 0
TooLong(kind) ==
    IF kind = "jira" THEN "Commit message is too long" ELSE "Subject line too long"

\* C10: for the Conventional, GitHub and Jira handlers, a measured line of
\* at most the configured maximum (exactly the maximum included) gives no
\* length error, and a longer line (one character over included) gives the
\* too long error, which holds the actual length and the maximum.
LengthBoundary ==
    (pc = "validated" /\ MeasuredLength(handler.kind, outcome.value) >= 0) =>
      /\ MeasuredLength(handler.kind, outcome.value) <= MaximumLength(handler.kind, config)
         => \A i \in DOMAIN outcome.value.errors :
               outcome.value.errors[i][1] # TooLong(handler.kind)
      /\ MeasuredLength(handler.kind, outcome.value) > MaximumLength(handler.kind, config)
         => \E i \in DOMAIN outcome.value.errors :
               outcome.value.errors[i] =
                  <<TooLong(handler.kind), MeasuredLength(handler.kind, outcome.value),
                    MaximumLength(handler.kind, config)>>

\* A Conventional message whose subject line is exactly the default maximum.
LengthBoundaryWitness ==
    /\ pc = "validated"
    /\ handler.kind = "conventional"
    /\ "max_subject_length" \notin DOMAIN config
    /\ MeasuredLength(handler.kind, outcome.value) = ConventionalDefaultMaxSubject
    /\ outcome.value.valid

(***************************************************************************)
(* Registry, custom matches, issue references, Jira project keys           *)
(***************************************************************************)
\* The format_type get_commit_format reads from the configuration.
RequestedFormat == Get(config, "format_type", "conventional")
BuiltInNames == {"conventional", "github", "jira", "custom"}

Participating(m) == {g \in DOMAIN m.groups : m.groups[g] # None}

\* C12: when the message matches the pattern of a Custom handler, validate
\* returns a result with valid true, no errors, and matches mapping every
\* named group that took part in the match to its substring; a named group
\* that did not take part is absent or maps to the empty string.
CustomMatchesEveryGroup ==
    (/\ pc \in {"validated", "validate_raised"}
     /\ handler.kind = "custom"
     /\ CustomMatch(handler.pattern, message).matched)
    => LET m == CustomMatch(handler.pattern, message)
       IN  /\ outcome.raised = "none"
           /\ outcome.value.valid
           /\ outcome.value.errors = <<>>
           /\ DOMAIN outcome.value.matches \subseteq DOMAIN m.groups
           /\ \A g \in Participating(m) :
                 /\ g \in DOMAIN outcome.value.matches
                 /\ outcome.value.matches[g] = m.groups[g]
           /\ \A g \in DOMAIN m.groups \ Participating(m) :
                 g \in DOMAIN outcome.value.matches => outcome.value.matches[g] = <<>>

\* An occurrence of the keyword kw in msg: it starts at offset k, at the
\* start of the message or after a whitespace character, compared without
\* case; an optional colon and one whitespace character or more follow, then
\* "#" at index h and a digit.
IsOccurrence(msg, kw, k, h) ==
    /\ k = 0 \/ IsSpace(msg[k])
    /\ k + Len(kw) <= Len(msg)
    /\ Lower(SubSeq(msg, k + 1, k + Len(kw))) = Lower(kw)
    /\ h < Len(msg)
    /\ msg[h] = "#"
    /\ IsDigit(msg[h + 1])
    /\ \E colon \in {0, 1} :
          /\ colon = 1 => msg[k + Len(kw) + 1] = ":"
          /\ h > k + Len(kw) + colon + 1
          /\ \A i \in (k + Len(kw) + colon + 1)..(h - 1) : IsSpace(msg[i])
Occurrences(msg, keywords) ==
    {o \in [start : 0..Len(msg), hash : 1..Len(msg), kw : DOMAIN keywords] :
        IsOccurrence(msg, keywords[o.kw], o.start, o.hash)}
\* The digits that follow index h.
DigitsAfter(msg, h) ==
    SubSeq(msg, h + 1,
           CHOOSE d \in (h + 1)..Len(msg) :
              /\ \A i \in (h + 1)..d : IsDigit(msg[i])
              /\ d = Len(msg) \/ ~IsDigit(msg[d + 1]))

\* C13: the issue reference a GitHub result records is the first occurrence
\* of a configured keyword in the whole message, subject included; without
\* an occurrence, as in "Add x (Fixes #12)", issue_reference and
\* issue_keyword stay None.
FirstReferenceRecorded ==
    (pc = "validated" /\ handler.kind = "github")
    => LET found == Occurrences(message, handler.issue_keywords)
           value == outcome.value
       IN  IF found = {}
           THEN value.issue_reference = None /\ value.issue_keyword = None
           ELSE \E o \in found :
                  /\ \A other \in found : o.start <= other.start
                  /\ value.issue_keyword
                       = SubSeq(message, o.start + 1,
                                o.start + Len(handler.issue_keywords[o.kw]))
                  /\ value.issue_reference = DigitsAfter(message, o.hash)

\* The same for the handlers with a keyword configured.
FirstReferenceRecordedWithKeywords ==
    handler # NoHandler /\ handler.kind = "github" /\ handler.issue_keywords # <<>>
    => FirstReferenceRecorded

\* The first line validate looks at: the text before the first blank line,
\* without the whitespace around it.
JiraFirstLine == JiraFirstBody(message).first
\* The index of the first character c of line, 0 when there is none.
FirstIndex(line, c) ==
    IF \E i \in DOMAIN line : line[i] = c
    THEN CHOOSE i \in DOMAIN line : line[i] = c /\ \A j \in 1..(i - 1) : line[j] # c
    ELSE 0
\* The end of the digits that start after index d.
DigitsEnd(line, d) ==
    CHOOSE n \in d..Len(line) :
        /\ \A i \in (d + 1)..n : IsDigit(line[i])
        /\ n = Len(line) \/ ~IsDigit(line[n + 1])
\* The text of line after the whitespace that follows index c.
TextAfter(line, c) ==
    SubSeq(line,
           CHOOSE t \in (c + 1)..(Len(line) + 1) :
              /\ \A i \in (c + 1)..(t - 1) : IsSpace(line[i])
              /\ t = Len(line) + 1 \/ ~IsSpace(line[t]),
           Len(line))
\* line starts with a well-formed issue id: a key of an uppercase letter and
\* one or more uppercase letters, digits or underscores, a hyphen, digits,
\* a colon after optional whitespace, whitespace, and a text without newline.
WellFormedIssueId(line) ==
    LET d == FirstIndex(line, "-")
        c == FirstIndex(line, ":")
    IN  /\ d >= 3
        /\ IsUpper(line[1])
        /\ \A i \in 2..(d - 1) : IsUpper(line[i]) \/ IsDigit(line[i]) \/ line[i] = "_"
        /\ DigitsEnd(line, d) > d
        /\ c > DigitsEnd(line, d)
        /\ \A i \in (DigitsEnd(line, d) + 1)..(c - 1) : IsSpace(line[i])
        /\ c < Len(line)
        /\ IsSpace(line[c + 1])
        /\ TextAfter(line, c) # <<>>
        /\ \A i \in DOMAIN TextAfter(line, c) : TextAfter(line, c)[i] # NL
ProjectKeyError(keys) ==
    <<"Commit message must start with a Jira issue ID from one of the allowed projects",
      keys>>

\* C14: for a message whose first line starts with a well-formed issue id,
\* a Jira result holds the issue id and the message text; when project keys
\* are configured and the key of the issue id is not one of them the result
\* is invalid with the allowed-projects error listing the configured keys;
\* otherwise, and always when no key is configured, there is no error about
\* the issue id.
ProjectKeyChecked ==
    (/\ pc = "validated"
     /\ handler.kind = "jira"
     /\ WellFormedIssueId(JiraFirstLine))
    => LET line == JiraFirstLine
           d == FirstIndex(line, "-")
           keys == Get(config, "jira_project_keys", <<>>)
           value == outcome.value
       IN  /\ value.issue_id = Take(line, DigitsEnd(line, d))
           /\ value.message = TextAfter(line, FirstIndex(line, ":"))
           /\ IF keys # <<>> /\ ~In(Take(line, d - 1), keys)
              THEN ~value.valid /\ In(ProjectKeyError(keys), value.errors)
              ELSE \A i \in DOMAIN value.errors :
                      value.errors[i][1] = "Commit message is too long"

ProjectKeyCheckedWitness ==
    /\ pc = "validated"
    /\ handler.kind = "jira"
    /\ message = <<"O","T","H","E","R","-","1",":"," ","f","i","x">>
    /\ Get(config, "jira_project_keys", <<>>) = <<<<"P","R","O","J">>, <<"D","E","V">>>>
    /\ outcome.value.errors = <<ProjectKeyError(<<<<"P","R","O","J">>, <<"D","E","V">>>>)>>

(***************************************************************************)
(* Optional issue ids, custom construction, configuration, determinism     *)
(***************************************************************************)
\* The text of msg before its first blank line, all of it when there is none.
BeforeBlankLine(msg) ==
    IF \E j \in 0..Len(msg) : StartsWithAt(msg, j, BlankLine)
    THEN Take(msg, CHOOSE j \in 0..Len(msg) :
                      /\ StartsWithAt(msg, j, BlankLine)
                      /\ \A i \in 0..(j - 1) : ~StartsWithAt(msg, i, BlankLine))
    ELSE msg
\* A Jira handler whose issue id is optional has validated a message whose
\* first line holds no well-formed issue id.
NoIdOptional ==
    /\ pc = "validated"
    /\ handler.kind = "jira"
    /\ ~Get(config, "require_issue_id", TRUE)
    /\ ~WellFormedIssueId(JiraFirstLine)
\* The errors of a result whose only failed check is the length of text.
OnlyLength(text) ==
    IF Len(text) > Get(config, "max_message_length", DEFAULT_MAX_LENGTH)
    THEN << <<"Commit message is too long", Len(text),
              Get(config, "max_message_length", DEFAULT_MAX_LENGTH)>> >>
    ELSE <<>>

\* C15 as stated: without a matching issue id and with require_issue_id
\* false, the result has issue_id None and message equal to the text before
\* the first blank line, character for character, and only the length of
\* that text can fail.
OptionalIdVerbatim ==
    NoIdOptional
    => /\ outcome.value.issue_id = None
       /\ outcome.value.message = BeforeBlankLine(message)
       /\ outcome.value.errors = OnlyLength(BeforeBlankLine(message))

\* C15: without a matching issue id and with require_issue_id false, the
\* result has issue_id None and message equal to the text before the first
\* blank line with the whitespace around it removed, and the only check
\* that can fail is the length of that text.
OptionalIdTrimmed ==
    NoIdOptional
    => /\ outcome.value.issue_id = None
       /\ outcome.value.message = Strip(BeforeBlankLine(message))
       /\ outcome.value.errors = OnlyLength(Strip(BeforeBlankLine(message)))
       /\ outcome.value.valid <=> outcome.value.errors = <<>>

OptionalIdTrimmedWitness ==
    /\ NoIdOptional
    /\ message = <<" ","a","d","d"," ","f","e","a","t","u","r","e","s"," ","\n","\n","w","h","y">>
    /\ outcome.value.message = <<"a","d","d"," ","f","e","a","t","u","r","e","s">>
    /\ ~outcome.value.valid

\* C16: constructing a Custom handler raises InvalidPatternError, and there
\* is no handler, when custom_pattern is missing, empty, or no regular
\* expression; for every other pattern the handler is constructed with it.
CustomConstruction ==
    (pc # "idle" /\ RequestedFormat = "custom")
    => IF \/ "custom_pattern" \notin DOMAIN config
          \/ config["custom_pattern"] = ""
          \/ config["custom_pattern"] = P_Unclosed
       THEN /\ pc = "failed"
            /\ handler = NoHandler
            /\ outcome.raised = "InvalidPatternError"
       ELSE /\ pc # "failed"
            /\ handler.kind = "custom"
            /\ handler.pattern = config["custom_pattern"]

CustomConstructionWitness ==
    /\ pc = "failed"
    /\ "custom_pattern" \in DOMAIN config
    /\ config["custom_pattern"] = P_Unclosed
    /\ outcome.raised = "InvalidPatternError"

\* C17: no operation of a handler changes the configuration: construction,
\* validate and prompt_for_message leave the mapping the caller holds with
\* the keys and values it had.
ConfigNeverMutated == [][config' = config]_vars

\* A Custom handler was constructed, has prompted and has validated.
ConfigNeverMutatedWitness ==
    /\ pc = "validated"
    /\ handler.kind = "custom"
    /\ answers # NoAnswers
    /\ "message_template" \in DOMAIN config
    /\ message = <<"[","f","e","a","t","]"," ","a","d","d"," ","x">>

ReportedValid == outcome.raised = "none" /\ outcome.value.valid
ReportedInvalid == outcome.raised = "none" /\ ~outcome.value.valid

\* C19: lint without interactive mode exits with code 0 exactly when
\* validate reported the message valid; for an invalid message it displays
\* every error of the result and exits with code 1; prompt_for_message is
\* not called.
LintNonInteractive ==
    (cli.command = "lint" /\ cli.stage = "exited" /\ ~cli.interactive)
    => /\ cli.exit_code = 0 <=> ReportedValid
       /\ ReportedInvalid
            => /\ cli.exit_code = 1
               /\ \A i \in DOMAIN outcome.value.errors :
                     In(outcome.value.errors[i], cli.errors)
       /\ answers = NoAnswers

\* An invalid message with two errors was linted from a file.
LintNonInteractiveWitness ==
    /\ cli.command = "lint"
    /\ cli.stage = "exited"
    /\ ~cli.interactive
    /\ cli.file_arg = "exists"
    /\ ReportedInvalid
    /\ Len(outcome.value.errors) >= 2
    /\ cli.errors = outcome.value.errors
    /\ cli.exit_code = 1

\* create has ended after prompt_for_message returned a message.
CreateEnded ==
    /\ cli.command = "create"
    /\ cli.stage = "exited"
    /\ pc \in {"validated", "validate_raised"}
\* The message is in the output file when one was given, else on display.
MessageSaved ==
    IF cli.file_arg = "exists" THEN cli.file = message ELSE cli.panel = message

\* C20: create validates the message prompt_for_message returned with the
\* same handler, saves it to the output file or displays it whether or not
\* it is valid, the file holding the message, and exits with code 1 exactly
\* when the validation failed.
CreateAlwaysSaves ==
    CreateEnded
    => /\ outcome.raised = "none"
       /\ outcome.value = HandlerValidate(handler, message).value
       /\ MessageSaved
       /\ cli.exit_code = 1 <=> ~outcome.value.valid

\* The same for the runs of create in which validate returned a result.
CreateSavesWhenValidated ==
    (CreateEnded /\ outcome.raised = "none")
    => /\ outcome.value = HandlerValidate(handler, message).value
       /\ MessageSaved
       /\ cli.exit_code = (IF outcome.value.valid THEN 0 ELSE 1)

(***************************************************************************)
(* Properties of the commands: format override, commit, interactive lint.  *)
(***************************************************************************)
\* --format-type was given and names a format of the registry.
OverrideRegistered == cli.format_type \in DOMAIN FORMAT_REGISTRY
\* --format-type was given and names no format of the registry.
OverrideUnregistered ==
    cli.format_type # "" /\ cli.format_type \notin DOMAIN FORMAT_REGISTRY
\* A handler that exists was built from the configuration with the override.
BuiltFromOverride ==
    handler # NoHandler =>
        /\ config["format_type"] = cli.format_type
        /\ handler.kind = get_format_name(FORMAT_REGISTRY[cli.format_type])
        /\ "config" \in DOMAIN handler => handler.config = config
\* The command reported the invalid format type with the valid formats and
\* ended with a non-zero code, and neither validate nor prompt_for_message
\* was called.
InvalidFormatReported ==
    /\ In("Invalid format type", cli.notices)
    /\ \A i \in DOMAIN RegistryKeys : In(RegistryKeys[i], cli.notices)
    /\ cli.stage = "exited"
    /\ cli.exit_code > 0
    /\ pc = "failed"
    /\ handler = NoHandler
    /\ answers = NoAnswers
    /\ message = NoMessage
    /\ outcome = NoOutcome

\* C21 as stated: with a registered --format-type the handler is built from
\* a configuration whose format_type is the override; with an unregistered
\* one the command always reports 'Invalid format type' with the valid
\* formats, exits non-zero and calls neither validate nor prompt_for_message.
FormatOverrideAlwaysReported ==
    cli.command # "none" =>
        /\ OverrideRegistered => BuiltFromOverride
        /\ OverrideUnregistered => InvalidFormatReported

\* C21: for lint, create and commit, with a registered --format-type the
\* handler is built from a configuration whose format_type is the override,
\* whatever the file held; with an unregistered one, once load_config has
\* returned a configuration, the command reports 'Invalid format type' with
\* the valid formats, exits non-zero and calls neither validate nor
\* prompt_for_message.
FormatOverride ==
    cli.command # "none" =>
        /\ OverrideRegistered => BuiltFromOverride
        /\ (OverrideUnregistered /\ ~cli.load_raised) => InvalidFormatReported
        /\ (OverrideUnregistered /\ cli.load_raised) =>
              /\ cli.stage = "exited" /\ cli.exit_code > 0 /\ pc = "failed"
              /\ answers = NoAnswers /\ message = NoMessage /\ outcome = NoOutcome

FormatOverrideWitness ==
    /\ cli.command = "commit"
    /\ OverrideUnregistered
    /\ ~cli.load_raised
    /\ cli.notices[1] = "Invalid format type"
    /\ cli.exit_code = 1

\* init has ended after it was asked to write pyproject.toml, which held a
\* TOML document.
InitOnExistingPyproject ==
    /\ cli.command = "init"
    /\ cli.stage = "exited"
    /\ cli.output_file = "pyproject.toml"
    /\ cli.before["pyproject.toml"].kind = "toml"
\* The document of pyproject.toml before and after init.
DataBefore == cli.before["pyproject.toml"].data
DataAfter == cli.files["pyproject.toml"].data
\* The tool table before init, empty when there was none.
ToolBefore == IF "tool" \in DOMAIN DataBefore THEN DataBefore["tool"] ELSE <<>>

\* C22: init on an existing pyproject.toml with a registered format type
\* sets the table tool.commit_lint to the new configuration and leaves every
\* other table and key of the file, and every other file, as it was; with an
\* unregistered format type init exits non-zero and no file is created or
\* modified.
InitReplacesOnlyItsTable ==
    /\ (InitOnExistingPyproject /\ cli.format_type \in DOMAIN FORMAT_REGISTRY) =>
          /\ cli.exit_code = 0
          /\ cli.files["pyproject.toml"].kind = "toml"
          /\ DataAfter["tool"]["commit_lint"] = InitConfig(cli.format_type)
          /\ DataAfter["tool"]["commit_lint"]["format_type"] = cli.format_type
          /\ DOMAIN DataAfter = DOMAIN DataBefore \cup {"tool"}
          /\ \A k \in DOMAIN DataBefore \ {"tool"} : DataAfter[k] = DataBefore[k]
          /\ DOMAIN DataAfter["tool"] = DOMAIN ToolBefore \cup {"commit_lint"}
          /\ \A k \in DOMAIN ToolBefore \ {"commit_lint"} :
                DataAfter["tool"][k] = ToolBefore[k]
          /\ cli.files["commit-lint.toml"] = cli.before["commit-lint.toml"]
    /\ (/\ cli.command = "init"
        /\ cli.stage = "exited"
        /\ cli.format_type \notin DOMAIN FORMAT_REGISTRY) =>
          /\ cli.exit_code > 0
          /\ cli.files = cli.before

InitReplacesOnlyItsTableWitness ==
    /\ InitOnExistingPyproject
    /\ cli.format_type = "github"
    /\ DOMAIN DataBefore = {"project", "tool"}
    /\ DOMAIN ToolBefore = {"black", "commit_lint"}
    /\ ToolBefore["commit_lint"] # InitConfig("github")
    /\ DataAfter["tool"]["commit_lint"] = InitConfig("github")
    /\ DataAfter["tool"]["black"] = ToolBefore["black"]

\* The candidates the search is said to examine: the two files of each
\* directory from dir up to the root, the root included.
RECURSIVE CandidatesUpward(_)
CandidatesUpward(dir) ==
    << <<dir, "pyproject.toml">>, <<dir, "commit-lint.toml">> >>
        \o (IF dir = 0 THEN <<>> ELSE CandidatesUpward(dir - 1))
\* A candidate qualifies: it exists, parses and yields a configuration that
\* is not empty.
Qualifies(path) ==
    /\ cli.fs[path].kind = "toml"
    /\ IF path[2] = "pyproject.toml"
       THEN /\ "tool" \in DOMAIN cli.fs[path].data
            /\ "commit_lint" \in DOMAIN cli.fs[path].data["tool"]
            /\ cli.fs[path].data["tool"]["commit_lint"] # <<>>
       ELSE cli.fs[path].data # <<>>
\* The configuration a qualifying candidate holds.
Held(path) ==
    IF path[2] = "pyproject.toml" THEN cli.fs[path].data["tool"]["commit_lint"]
    ELSE cli.fs[path].data
\* What load_config returns when it searches candidates.
FirstQualifying(candidates) ==
    IF \E i \in DOMAIN candidates : Qualifies(candidates[i])
    THEN Held(candidates[Least({i \in DOMAIN candidates : Qualifies(candidates[i])})])
    ELSE GetDefaultConfig
\* load_config has returned or raised.
Loaded == cli.command = "load_config" /\ cli.stage = "exited"

\* C28: without a path load_config returns the configuration of the first
\* candidate, from the working directory upward through its parents and
\* pyproject.toml before commit-lint.toml, that exists, parses and is not
\* empty, and the defaults when there is none; with a path that does not
\* exist it raises FileNotFoundError.
ConfigSearchUpward ==
    Loaded =>
        /\ cli.config_path = None =>
              cli.result = Returned(FirstQualifying(CandidatesUpward(cli.cwd)))
        /\ (cli.config_path # None /\ cli.fs[cli.config_path] = Absent) =>
              cli.result = Raised("FileNotFoundError")

\* The search as the code does it: the root directory is not examined.
ConfigSearchBelowRoot ==
    Loaded =>
        /\ cli.config_path = None =>
              cli.result =
                 Returned(FirstQualifying(
                    IF cli.cwd = 0 THEN <<>>
                    ELSE SubSeq(CandidatesUpward(cli.cwd), 1, 2 * cli.cwd)))
        /\ (cli.config_path # None /\ cli.fs[cli.config_path] = Absent) =>
              cli.result = Raised("FileNotFoundError")

(***************************************************************************)
(* Properties of the prompts.                                              *)
(***************************************************************************)
\* The step of prompt_for_message a question belongs to.
StepOf(question) ==
    CASE question = "Commit type:" -> 1
      [] question = "Scope" -> 2
      [] question \in {"Is this a breaking change?", "Describe the breaking change"} -> 3
      [] question = "Description:" -> 4
      [] question \in {"Add body?", "Enter body"} -> 5
      [] question \in {"Add footer?", "Enter footer"} -> 6
\* The position of a question among those asked, 0 when it was not asked.
AskedAt(question) ==
    IF In(question, answers.asked)
    THEN CHOOSE i \in DOMAIN answers.asked : answers.asked[i] = question
    ELSE 0

\* C23: the Conventional prompt asks in the order type, scope, breaking
\* change, description, body, footer, and no question of a later step comes
\* before one of an earlier step; the breaking-change question is asked if
\* and only if the chosen type is in allowed_breaking_changes, its
\* description only directly after the answer yes, and a description left
\* blank becomes "Breaking changes".
ConventionalPromptOrder ==
    answers.kind = "conventional" =>
        /\ \A i, j \in DOMAIN answers.asked :
              i < j => StepOf(answers.asked[i]) < StepOf(answers.asked[j])
                          \/ /\ StepOf(answers.asked[i]) = StepOf(answers.asked[j])
                             /\ answers.asked[i] # answers.asked[j]
        /\ \A step \in {1, 2, 4, 5} :
              \E i \in DOMAIN answers.asked : StepOf(answers.asked[i]) = step
        /\ AskedAt("Commit type:") = 1
        /\ AskedAt("Is this a breaking change?") # 0
              <=> In(answers.type, Get(config, "allowed_breaking_changes", <<>>))
        /\ AskedAt("Describe the breaking change") # 0 <=> answers.breaking
        /\ answers.breaking =>
              /\ AskedAt("Describe the breaking change")
                    = AskedAt("Is this a breaking change?") + 1
              /\ AskedAt("Is this a breaking change?") # 0
              /\ answers.breaking_description =
                    IF answers.breaking_text = <<>> THEN <<"B","r","e","a","k","i","n","g"," ","c","h","a","n","g","e","s">>
                    ELSE answers.breaking_text
        /\ AskedAt("Add body?") # 0 => AskedAt("Add body?") > AskedAt("Description:")
        /\ AskedAt("Enter body") # 0 => AskedAt("Enter body") > AskedAt("Add body?")
        /\ AskedAt("Enter footer") # 0 => AskedAt("Enter footer") > AskedAt("Add footer?")

ConventionalPromptOrderWitness ==
    /\ pc = "prompted"
    /\ answers.kind = "conventional"
    /\ answers.breaking
    /\ answers.breaking_text = <<>>
    /\ answers.breaking_description = <<"B","r","e","a","k","i","n","g"," ","c","h","a","n","g","e","s">>
    /\ answers.asked = <<"Commit type:", "Scope", "Is this a breaking change?",
                         "Describe the breaking change", "Description:",
                         "Add body?", "Enter body", "Enter footer">>

\* The breaking-change text the footer starts from.
BreakingText == <<"B","R","E","A","K","I","N","G"," ","C","H","A","N","G","E",":"," ">> \o answers.breaking_description
\* The footer begins with the breaking-change text exactly after a yes.
FooterStartsWithBreaking ==
    answers.breaking <=>
        /\ Len(answers.footer) >= Len(<<"B","R","E","A","K","I","N","G"," ","C","H","A","N","G","E",":"," ">>)
        /\ StartsWithAt(answers.footer, 0, <<"B","R","E","A","K","I","N","G"," ","C","H","A","N","G","E",":"," ">>)
\* What the additional content does to the footer: appended after one blank
\* line, the whole footer when there is no breaking-change text, and nothing
\* when it is empty or was not collected.
FooterAssembled ==
    answers.footer =
        IF answers.additional \in {None, <<>>}
        THEN IF answers.breaking THEN BreakingText ELSE <<>>
        ELSE IF answers.breaking
        THEN BreakingText \o <<NL, NL>> \o answers.additional
        ELSE answers.additional

\* C24 as stated: the footer starts with the breaking-change text exactly
\* after a yes; "Add footer?" is asked unless footer_required is set, and
\* then the content is collected without the question; the content is
\* appended after one blank line, and empty content changes nothing.
FooterAlwaysOffered ==
    answers.kind = "conventional" =>
        /\ FooterStartsWithBreaking
        /\ AskedAt("Add footer?") # 0 <=> ~Get(config, "footer_required", FALSE)
        /\ Get(config, "footer_required", FALSE) => AskedAt("Enter footer") # 0
        /\ FooterAssembled

\* C24: the footer starts with the breaking-change text exactly after a yes;
\* "Add footer?" is asked exactly when footer_required is not set and no
\* breaking change was declared; the content is collected after a yes to
\* it, and without the question when footer_required is set; after a
\* breaking change without footer_required nothing is asked; the content is
\* appended after one blank line, and empty content changes nothing.
FooterStep ==
    answers.kind = "conventional" =>
        /\ FooterStartsWithBreaking
        /\ AskedAt("Add footer?") # 0
              <=> ~Get(config, "footer_required", FALSE) /\ ~answers.breaking
        /\ Get(config, "footer_required", FALSE) => AskedAt("Enter footer") # 0
        /\ AskedAt("Enter footer") # 0 <=> answers.additional # None
        /\ (~Get(config, "footer_required", FALSE) /\ answers.breaking) =>
              answers.additional = None /\ answers.footer = BreakingText
        /\ FooterAssembled

FooterStepWitness ==
    /\ pc = "prompted"
    /\ answers.kind = "conventional"
    /\ answers.breaking
    /\ Get(config, "footer_required", FALSE)
    /\ AskedAt("Add footer?") = 0
    /\ answers.additional = <<"R","e","f","s"," ","1">>
    /\ answers.footer = <<"B","R","E","A","K","I","N","G"," ","C","H","A","N","G","E",":"," ","x","\n","\n","R","e","f","s"," ","1">>

\* The template with the placeholder of every group replaced at once:
\* scanned from the left, a placeholder gives the value of its group and
\* every other character gives itself.
RECURSIVE Substituted(_, _, _)
Substituted(template, groups, values) ==
    IF template = <<>> THEN <<>>
    ELSE LET here == {i \in DOMAIN groups :
                         StartsWithAt(template, 0,
                                      <<"{">> \o GroupText(groups[i]) \o <<"}">>)}
         IN  IF here = {} THEN <<template[1]>> \o Substituted(Tail(template), groups, values)
             ELSE LET g == groups[CHOOSE i \in here : TRUE]
                  IN  values[g] \o Substituted(Drop(template, Len(GroupText(g)) + 2),
                                                groups, values)

\* C27: the Custom prompt asks once for each named group, in the order of
\* the groups in the pattern, with the configured prompt text or
\* "Enter <group>"; with a message_template the result is the template with
\* each placeholder replaced by the value of its group, the values inserted
\* verbatim; without one it is the values joined by single spaces in group
\* order.
CustomPromptAssembly ==
    (pc = "prompted" /\ answers.kind = "custom") =>
        /\ DOMAIN answers.asked = DOMAIN handler.named_groups
        /\ \A i \in DOMAIN answers.asked :
              answers.asked[i] =
                  IF handler.named_groups[i] \in DOMAIN Get(config, "prompts", <<>>)
                  THEN config["prompts"][handler.named_groups[i]]
                  ELSE <<"E","n","t","e","r"," ">> \o GroupText(handler.named_groups[i])
        /\ message =
              IF Get(config, "message_template", <<>>) # <<>>
              THEN Substituted(config["message_template"], handler.named_groups,
                               answers.values)
              ELSE Join([i \in DOMAIN handler.named_groups |->
                            answers.values[handler.named_groups[i]]], <<" ">>)

\* The part of C27 the code keeps: the questions, and the result when no
\* value holds a placeholder and no value but the last is empty.
CustomPromptAssemblyPlainValues ==
    (/\ pc = "prompted" /\ answers.kind = "custom"
     /\ \A g \in DOMAIN answers.values :
           answers.values[g] \notin {<<>>, <<"{","m","e","s","s","a","g","e","}">>}) => CustomPromptAssembly

(***************************************************************************)
(* Properties of the parsed body and footer, and of the assembled          *)
(* messages.                                                               *)
(***************************************************************************)
\* validate of the Conventional handler returned the groups of a match.
ConventionalParsed ==
    /\ pc = "validated"
    /\ handler.kind = "conventional"
    /\ outcome.value.type # None
\* The text after the header line, and the text after the blank line that
\* follows the header.
AfterHeader ==
    Drop(message, Least({i \in 0..Len(message) :
                            i = Len(message) \/ message[i + 1] = NL}))
AfterBlankLine == Drop(AfterHeader, 2)
\* The offset of the first blank-line boundary in the text after the
\* header's blank line, -1 when there is none.
FirstBoundary ==
    Least({i \in 0..(Len(AfterBlankLine) - 2) : StartsWithAt(AfterBlankLine, i, BlankLine)})

\* C25 as stated: of header, blank line, P1, blank line, REST the body is P1
\* and the footer REST; of header, blank line, P1 without a further blank
\* line the body is P1 and there is no footer; of a header alone there is
\* neither.
BodyFooterVerbatim ==
    ConventionalParsed =>
        /\ (StartsWithAt(AfterHeader, 0, BlankLine) /\ FirstBoundary >= 0) =>
              /\ outcome.value.body = Take(AfterBlankLine, FirstBoundary)
              /\ outcome.value.footer = Drop(AfterBlankLine, FirstBoundary + 2)
        /\ (StartsWithAt(AfterHeader, 0, BlankLine) /\ FirstBoundary < 0) =>
              /\ outcome.value.body = AfterBlankLine
              /\ outcome.value.footer = None
        /\ AfterHeader = <<>> =>
              outcome.value.body = None /\ outcome.value.footer = None

\* C25: of header, blank line, P1, blank line, REST the body is P1 and the
\* footer the whole of REST; of header, blank line, P1 without a further
\* blank line the body is P1 less one newline that ends the message, and
\* there is no footer; of a header alone, also when a newline ends it, there
\* is neither.
BodyFooterParsed ==
    ConventionalParsed =>
        /\ (StartsWithAt(AfterHeader, 0, BlankLine) /\ FirstBoundary >= 0) =>
              /\ outcome.value.body = Take(AfterBlankLine, FirstBoundary)
              /\ outcome.value.footer = Drop(AfterBlankLine, FirstBoundary + 2)
        /\ (StartsWithAt(AfterHeader, 0, BlankLine) /\ FirstBoundary < 0) =>
              /\ outcome.value.body =
                    IF EndsWith(AfterBlankLine, <<NL>>)
                    THEN Take(AfterBlankLine, Len(AfterBlankLine) - 1)
                    ELSE AfterBlankLine
              /\ outcome.value.footer = None
        /\ AfterHeader \in {<<>>, <<NL>>} =>
              outcome.value.body = None /\ outcome.value.footer = None
        /\ \/ StartsWithAt(AfterHeader, 0, BlankLine)
           \/ AfterHeader \in {<<>>, <<NL>>}

BodyFooterParsedWitness ==
    /\ ConventionalParsed
    /\ message = <<"f","e","a","t",":"," ","a","d","d"," ","x","\n","\n","w","h","y","\n","s","o","\n","\n","R","e","f","s"," ","1","\n">>
    /\ outcome.value.body = <<"w","h","y","\n","s","o">>
    /\ outcome.value.footer = <<"R","e","f","s"," ","1","\n">>

\* The number of offsets at which p occurs in s.
CountOf(s, p) == Cardinality({i \in 0..(Len(s) - Len(p)) : StartsWithAt(s, i, p)})
\* The GitHub prompt has returned a message.
GitHubPrompted == pc = "prompted" /\ answers.kind = "github"
\* The reference in parentheses, as the subject line carries it.
InParentheses == <<"(">> \o answers.issue_reference \o <<")">>
\* Whether each reference question was asked.
ReferenceAskedWithoutConfirmation ==
    Get(config, "issue_reference_required", FALSE) =>
        /\ ~In("Add issue reference?", answers.asked)
        /\ In("Reference keyword", answers.asked)
        /\ In("Issue number", answers.asked)
        /\ answers.issue_reference = answers.keyword \o <<" ","#">> \o answers.issue_number

\* C26 as stated: the subject alone; the subject with the reference in
\* parentheses; subject, blank line, body; subject, blank line, body, blank
\* line, reference; the reference occurs exactly once in every result, and
\* a required reference is asked for without confirmation.
GitHubAssemblyOnce ==
    GitHubPrompted =>
        /\ message =
              IF answers.body = <<>>
              THEN IF answers.issue_reference = <<>> THEN answers.subject
                   ELSE answers.subject \o <<" ">> \o InParentheses
              ELSE IF answers.issue_reference = <<>>
              THEN answers.subject \o <<NL, NL>> \o answers.body
              ELSE answers.subject \o <<NL, NL>> \o answers.body
                      \o <<NL, NL>> \o answers.issue_reference
        /\ answers.issue_reference # <<>> =>
              CountOf(message, answers.issue_reference) = 1
        /\ ReferenceAskedWithoutConfirmation

\* C26: the subject alone; the subject with the reference in parentheses;
\* subject, blank line, body; subject, blank line, body, blank line,
\* reference, unless the subject typed ends with the reference in
\* parentheses, and then subject, blank line, body; the assembly adds the
\* reference once to what was typed, and not at all in that last case; a
\* required reference is asked for without confirmation.
GitHubAssembly ==
    GitHubPrompted =>
        /\ message =
              IF answers.body = <<>>
              THEN IF answers.issue_reference = <<>> THEN answers.subject
                   ELSE answers.subject \o <<" ">> \o InParentheses
              ELSE IF \/ answers.issue_reference = <<>>
                      \/ EndsWith(answers.subject, InParentheses)
              THEN answers.subject \o <<NL, NL>> \o answers.body
              ELSE answers.subject \o <<NL, NL>> \o answers.body
                      \o <<NL, NL>> \o answers.issue_reference
        /\ answers.issue_reference # <<>> =>
              CountOf(message, answers.issue_reference) =
                  CountOf(answers.subject, answers.issue_reference)
                     + CountOf(answers.body, answers.issue_reference)
                     + (IF /\ answers.body # <<>>
                           /\ EndsWith(answers.subject, InParentheses)
                        THEN 0 ELSE 1)
        /\ ReferenceAskedWithoutConfirmation

GitHubAssemblyWitness ==
    /\ GitHubPrompted
    /\ Get(config, "issue_reference_required", FALSE)
    /\ answers.subject = <<"A","d","d"," ","x">>
    /\ answers.body = <<"w","h","y","\n","m","o","r","e">>
    /\ message = <<"A","d","d"," ","x","\n","\n","w","h","y","\n","m","o","r","e","\n","\n","C","l","o","s","e","s"," ","#","1","2">>

\* The place of a step in the run of commit, 0 when it did not happen.
CliStep(step) ==
    IF \E i \in DOMAIN cli.steps : cli.steps[i] = step
    THEN Least({i \in DOMAIN cli.steps : cli.steps[i] = step})
    ELSE 0
\* commit has ended, and git commit was run in it.
CommitEnded == cli.command = "commit" /\ cli.stage = "exited"
GitCommitRan == CommitEnded /\ CliStep("git commit") > 0
\* The user was asked the question last: the answer was no.
Declined(question) ==
    /\ CommitEnded
    /\ cli.steps # <<>>
    /\ cli.steps[Len(cli.steps)] = question

\* C29: git commit runs only after prompt_for_message has returned, the
\* message was validated, the user was asked to continue when it is invalid,
\* and the staged changes were checked, all changes being staged only after
\* the question and before git commit when nothing was staged; after the
\* answer no to either question the command ends with code 1 and git commit
\* has not run; once git commit has run the temporary file is removed
\* before the command ends.
CommitOrdering ==
    /\ GitCommitRan =>
          /\ pc = "validated"
          /\ message # NoMessage
          /\ outcome.raised = "none"
          /\ CliStep("validate") = 1
          /\ CliStep("validate") < CliStep("git diff")
          /\ CliStep("git diff") < CliStep("git commit")
          /\ ~outcome.value.valid =>
                /\ CliStep("validate") < CliStep("Continue with invalid commit message?")
                /\ CliStep("Continue with invalid commit message?") < CliStep("git diff")
          /\ CliStep("Stage all changes?") > 0 =>
                /\ CliStep("git diff") < CliStep("Stage all changes?")
                /\ CliStep("Stage all changes?") < CliStep("git add")
                /\ CliStep("git add") < CliStep("git commit")
          /\ CliStep("git add") > 0 => CliStep("Stage all changes?") > 0
          /\ ~In("Failed to check staged changes", cli.notices)
          /\ cli.temp = "removed"
          /\ CliStep("git commit") < CliStep("unlink temp")
          /\ cli.steps[Len(cli.steps)] = "unlink temp"
    /\ \A question \in {"Continue with invalid commit message?", "Stage all changes?"} :
          Declined(question) => cli.exit_code = 1 /\ ~GitCommitRan
\* git commit failed for an invalid message the user went on with, after
\* all changes were staged.
CommitOrderingWitness ==
    /\ GitCommitRan
    /\ ~outcome.value.valid
    /\ CliStep("git add") > 0
    /\ CliStep("save message") > 0
    /\ cli.exit_code = 1

\* lint has ended; the message it read was valid, or was invalid with the
\* interactive mode on.
LintEnded == cli.command = "lint" /\ cli.stage = "exited"
LintFoundValid == LintEnded /\ In("Commit message is valid!", cli.notices)
LintFoundInvalid ==
    /\ LintEnded
    /\ In("Commit message validation failed:", cli.notices)
    /\ cli.interactive

\* C30: in the interactive mode of lint a valid message leads to no
\* prompt_for_message and leaves the file alone; for an invalid message
\* prompt_for_message is called once, its result is written to the file when
\* a file argument was given and only displayed otherwise, and the command
\* ends with code 0 without validating the new message; so after a lint
\* that ended with code 0 the file is untouched after a valid message or
\* holds what prompt_for_message returned.
LintInteractiveFix ==
    /\ LintFoundValid =>
          /\ pc = "constructed"
          /\ answers = NoAnswers
          /\ cli.file = None
          /\ cli.exit_code = 0
    /\ LintFoundInvalid =>
          /\ pc = "fixed"
          /\ answers # NoAnswers
          /\ outcome = NoOutcome
          /\ cli.exit_code = 0
          /\ IF cli.file_arg # "none"
             THEN cli.file = message /\ cli.panel = None
             ELSE cli.file = None /\ cli.panel = message
    /\ (LintEnded /\ cli.exit_code = 0) =>
          \/ LintFoundValid /\ cli.file = None
          \/ LintFoundInvalid /\ cli.file \in {None, message}

\* The same when prompt_for_message returns: the exception of the GitHub
\* prompt with no keyword configured ends lint with code 1, the file
\* untouched.
LintInteractiveFixReturned ==
    /\ LintFoundValid =>
          /\ pc = "constructed"
          /\ answers = NoAnswers
          /\ cli.file = None
          /\ cli.exit_code = 0
    /\ LintFoundInvalid =>
          IF pc = "prompt_raised"
          THEN /\ handler.kind = "github"
               /\ handler.issue_keywords = <<>>
               /\ cli.exit_code = 1
               /\ cli.file = None
          ELSE /\ pc = "fixed"
               /\ answers # NoAnswers
               /\ outcome = NoOutcome
               /\ cli.exit_code = 0
               /\ IF cli.file_arg # "none"
                  THEN cli.file = message /\ cli.panel = None
                  ELSE cli.file = None /\ cli.panel = message
    /\ (LintEnded /\ cli.exit_code = 0) =>
          \/ LintFoundValid /\ cli.file = None
          \/ LintFoundInvalid /\ cli.file \in {None, message}

=============================================================================
